---- MODULE Spec2Model ----
(***************************************************************************)
(* The DKG state machine of ferveo (PubliclyVerifiableDkg, dkg/pv.rs):     *)
(* one DKG instance, the calls share, aggregate, verify_message,           *)
(* apply_message and deal on it, and the result of the last call; and the  *)
(* threshold encryption of tpke (tpke/src/lib.rs): one key set up by a     *)
(* dealer, a ciphertext under it, and the shares of the validators. The    *)
(* variable peer holds the DKG instance of a second validator where two    *)
(* instances process one stream of messages.                               *)
(*                                                                         *)
(* Group elements of G1 are modelled by the additive group Z_GroupOrder;   *)
(* a PVSS transcript by its constant-term commitment coeffs[0] and by      *)
(* whether its public checks pass.                                         *)
(***************************************************************************)
EXTENDS Integers, Sequences, FiniteSets, TLC

VARIABLES dkg, ret, tpke, peer

vars == <<dkg, ret, tpke, peer>>

(***************************************************************************)
(* Bounds of the model.                                                    *)
(***************************************************************************)
\* order of the cyclic group standing for G1
GroupOrder == 2
\* largest shares_num (and validator count) a constructor call is given,
\* for a caller that applies any message
MaxShares == 2
\* the same for a caller that applies verified messages only
MaxSharesVerified == 4
\* largest security_threshold a constructor call is given
MaxThreshold == 3

G1 == 0..(GroupOrder - 1)

G1Zero == 0

G1Add(a, b) == (a + b) % GroupOrder

(***************************************************************************)
(* Validators.                                                             *)
(***************************************************************************)
\* ExternalValidator { address, public_key }
ExternalValidator(address, public_key) ==
    [address |-> address, public_key |-> public_key]

\* #[derive(PartialEq)] on ExternalValidator: both fields are compared
ExternalValidatorEq(a, b) ==
    a.address = b.address /\ a.public_key = b.public_key

\* Validator { validator, share_index }
Validator(validator, share_index) ==
    [validator |-> validator, share_index |-> share_index]

\* make_validators: position i of the list becomes share_index i
make_validators(validators) ==
    [i \in 1..Len(validators) |-> Validator(validators[i], i - 1)]

\* gen_n_validators: validator i has address "validator_i" and key i
gen_n_validators(n) ==
    [i \in 1..n |-> ExternalValidator(i - 1, i - 1)]

\* a list of two entries in which the second carries the address of the
\* first with a public key of its own
SharedAddressValidators ==
    <<ExternalValidator(0, 0), ExternalValidator(0, 1)>>

\* "fake-address", an address no validator of a list has
FakeAddress == -1

\* the public key of a fresh keypair, no validator's key
ForeignKey == -1

\* Iterator::position, given the set of the 1-based indices whose element
\* satisfies the predicate: the 0-based index of the first one, or -1 for
\* None
position(matching) ==
    IF matching = {} THEN -1
    ELSE (CHOOSE i \in matching : \A j \in matching : i <= j) - 1

(***************************************************************************)
(* Results.                                                                *)
(***************************************************************************)
NoValue == [kind |-> "none"]

Ok(v) == [ok |-> TRUE, err |-> "", val |-> v]

Err(msg) == [ok |-> FALSE, err |-> msg, val |-> NoValue]

(***************************************************************************)
(* PVSS transcripts and messages.                                          *)
(***************************************************************************)
\* PubliclyVerifiableSS: coeffs[0] and the outcome of its public checks
\* (degree of the committed polynomial, share/commitment pairings)
Pvss(coeffs0, valid) == [coeffs0 |-> coeffs0, valid |-> valid]

\* Pvss::new(s, dkg, rng): an honest transcript of the secret s
PvssNew(s) == Pvss(s, TRUE)

\* PubliclyVerifiableSS::verify_optimistic
verify_optimistic(pvss) == pvss.valid

MessageDeal(pvss) == [kind |-> "Deal", pvss |-> pvss]

\* Aggregation { vss, final_key }
Aggregation(vss, final_key) == [vss |-> vss, final_key |-> final_key]

MessageAggregate(aggregation) ==
    [kind |-> "Aggregate", aggregation |-> aggregation]

\* AggregatedPvss: the pointwise sum of `count` transcripts and the
\* outcome of its public checks
AggregatedPvss(count, valid) == [count |-> count, valid |-> valid]

(***************************************************************************)
(* DkgState.                                                               *)
(***************************************************************************)
Sharing(accumulated_shares, block) ==
    [tag |-> "Sharing", accumulated_shares |-> accumulated_shares,
     block |-> block]

Dealt == [tag |-> "Dealt"]

Success(final_key) == [tag |-> "Success", final_key |-> final_key]

Params(tau, security_threshold, shares_num) ==
    [tau |-> tau, security_threshold |-> security_threshold,
     shares_num |-> shares_num]

\* BTreeMap::new and BTreeMap::insert on the map vss
EmptyMap == [k \in {} |-> NoValue]

MapInsert(m, k, v) ==
    [i \in (DOMAIN m) \cup {k} |-> IF i = k THEN v ELSE m[i]]

\* the sum of f(x) over the keys of the map m, in G1
RECURSIVE SumOver(_, _)
SumOver(m, keys) ==
    IF keys = {} THEN G1Zero
    ELSE LET k == CHOOSE x \in keys : TRUE
         IN G1Add(m[k].coeffs0, SumOver(m, keys \ {k}))

(***************************************************************************)
(* PubliclyVerifiableDkg.                                                  *)
(***************************************************************************)
\* is_power_of_2: n = 2^k for some k
is_power_of_2(n) == \E k \in 0..n : 2^k = n

\* new without the check that shares_num is a power of two
new_any_shares_num(validators, params, me) ==
    LET me_pos == position({i \in 1..Len(validators) :
                               ExternalValidatorEq(me, validators[i])})
    IN IF me_pos = -1
       THEN Err("could not find this validator in the provided validator set")
       ELSE Ok([params |-> params,
                vss |-> EmptyMap,
                state |-> Sharing(0, 0),
                me |-> me_pos,
                validators |-> make_validators(validators)])

\* new looking `me` up by its address alone
new_me_by_address(validators, params, me) ==
    IF ~is_power_of_2(params.shares_num)
    THEN Err("number of shares must be a power of 2")
    ELSE LET me_pos == position({i \in 1..Len(validators) :
                                    me.address = validators[i].address})
         IN IF me_pos = -1
            THEN Err("could not find this validator in the provided validator set")
            ELSE Ok([params |-> params,
                     vss |-> EmptyMap,
                     state |-> Sharing(0, 0),
                     me |-> me_pos,
                     validators |-> make_validators(validators)])

\* new recording the position of `me` counted from 1
new_me_from_one(validators, params, me) ==
    IF ~is_power_of_2(params.shares_num)
    THEN Err("number of shares must be a power of 2")
    ELSE LET me_pos == position({i \in 1..Len(validators) :
                                    ExternalValidatorEq(me, validators[i])})
         IN IF me_pos = -1
            THEN Err("could not find this validator in the provided validator set")
            ELSE Ok([params |-> params,
                     vss |-> EmptyMap,
                     state |-> Sharing(0, 0),
                     me |-> me_pos + 1,
                     validators |-> make_validators(validators)])

\* new listing the validators with `me` moved to the front
new_me_first(validators, params, me) ==
    IF ~is_power_of_2(params.shares_num)
    THEN Err("number of shares must be a power of 2")
    ELSE LET me_pos == position({i \in 1..Len(validators) :
                                    ExternalValidatorEq(me, validators[i])})
         IN IF me_pos = -1
            THEN Err("could not find this validator in the provided validator set")
            ELSE Ok([params |-> params,
                     vss |-> EmptyMap,
                     state |-> Sharing(0, 0),
                     me |-> 0,
                     validators |->
                         make_validators(
                             <<me>> \o SubSeq(validators, 1, me_pos)
                                  \o SubSeq(validators, me_pos + 2,
                                            Len(validators)))])

\* PubliclyVerifiableDkg::new. The session keypair and the evaluation
\* domain are stored and read by no operation of the state machine.
new(validators, params, me) ==
    IF ~is_power_of_2(params.shares_num)
    THEN Err("number of shares must be a power of 2")
    ELSE LET me_pos == position({i \in 1..Len(validators) :
                                    ExternalValidatorEq(me, validators[i])})
         IN IF me_pos = -1
            THEN Err("could not find this validator in the provided validator set")
            ELSE Ok([params |-> params,
                     vss |-> EmptyMap,
                     state |-> Sharing(0, 0),
                     me |-> me_pos,
                     validators |-> make_validators(validators)])

\* PubliclyVerifiableDkg::create_share, with the sampled secret s
create_share(d, s) == Ok(PvssNew(s))

\* share with the state guard narrowed to Sharing
share_sharing_only(d, s) ==
    LET vss == create_share(d, s)
    IN IF ~vss.ok THEN vss
       ELSE IF d.state.tag = "Sharing"
            THEN Ok(MessageDeal(vss.val))
            ELSE Err("DKG is not in a valid state to deal PVSS shares")

\* PubliclyVerifiableDkg::share
share(d, s) ==
    LET vss == create_share(d, s)
    IN IF ~vss.ok THEN vss
       ELSE IF d.state.tag \in {"Sharing", "Dealt"}
            THEN Ok(MessageDeal(vss.val))
            ELSE Err("DKG is not in a valid state to deal PVSS shares")

\* final_key taken from the stored transcript of the lowest position
\* alone
final_key_first_dealer(d) ==
    IF DOMAIN d.vss = {} THEN G1Zero
    ELSE d.vss[CHOOSE k \in DOMAIN d.vss :
                   \A j \in DOMAIN d.vss : k <= j].coeffs0

\* PubliclyVerifiableDkg::final_key
final_key(d) == SumOver(d.vss, DOMAIN d.vss)

\* crate::aggregate: the pointwise sum of all stored transcripts
pvss_aggregate(d) ==
    AggregatedPvss(Cardinality(DOMAIN d.vss),
                   \A k \in DOMAIN d.vss : d.vss[k].valid)

\* aggregate with the state guard widened to Success
aggregate_after_success(d) ==
    IF d.state.tag \in {"Dealt", "Success"}
    THEN Ok(MessageAggregate(Aggregation(pvss_aggregate(d), final_key(d))))
    ELSE Err("Not enough PVSS transcripts received to aggregate")

\* PubliclyVerifiableDkg::aggregate
aggregate(d) ==
    IF d.state.tag = "Dealt"
    THEN Ok(MessageAggregate(Aggregation(pvss_aggregate(d), final_key(d))))
    ELSE Err("Not enough PVSS transcripts received to aggregate")

\* AggregatedPvss::verify_aggregation: the public checks on the aggregated
\* points, then the count of transcripts aggregated
verify_aggregation(vss, d) ==
    IF ~vss.valid THEN Err("Invalid aggregated PVSS transcript")
    ELSE Ok(vss.count)

\* a panic of the running thread
Panic(msg) == [ok |-> FALSE, err |-> msg, val |-> [kind |-> "panic"]]

\* the variant of Error that a result carries: every error that the DKG
\* builds is Error::Other around an anyhow message
ErrorVariant(r) ==
    IF r.ok THEN "none"
    ELSE IF r.val = [kind |-> "panic"] THEN "panic"
    ELSE "Other"

\* A u32 is held as the 32-bit two's complement integer of the same bit
\* pattern: a value of 2^31 or more is the negative integer v - 2^32.
\* u32 comparison a < b
LtU32(a, b) ==
    IF (a >= 0) = (b >= 0) THEN a < b ELSE a >= 0

\* u32 subtraction a - b of two values below 2^31, the set of its
\* outcomes: on underflow a build with overflow checks panics and a build
\* without them wraps to 2^32 + a - b
SubU32(a, b) ==
    IF a >= b THEN {Ok(a - b)}
    ELSE {Panic("attempt to subtract with overflow"), Ok(a - b)}

\* position of the sender among the validators as verify_message finds it
verify_position(d, sender) ==
    position({i \in 1..Len(d.validators) :
                 ExternalValidatorEq(sender, d.validators[i].validator)})

\* apply_position with a missing sender defaulted to position 0
apply_position_or_default(d, sender) ==
    IF \E i \in 1..Len(d.validators) :
           sender.address = d.validators[i].validator.address
    THEN position({i \in 1..Len(d.validators) :
                      sender.address = d.validators[i].validator.address})
    ELSE 0

\* apply_position giving a known sender the next free position, in order
\* of arrival
apply_position_by_arrival(d, sender) ==
    IF \E i \in 1..Len(d.validators) :
           sender.address = d.validators[i].validator.address
    THEN Cardinality(DOMAIN d.vss)
    ELSE -1

\* position of the sender among the validators as apply_message and deal
\* find it
apply_position(d, sender) ==
    position({i \in 1..Len(d.validators) :
                 sender.address = d.validators[i].validator.address})

\* verify_deal refusing the transcript that the instance dealt itself
verify_deal_not_own(d, sender, pvss) ==
    LET pos == verify_position(d, sender)
    IN IF pos = -1 \/ pos = d.me THEN Err("dkg received unknown dealer")
       ELSE IF pos \in DOMAIN d.vss THEN Err("Repeat dealer")
       ELSE IF ~verify_optimistic(pvss) THEN Err("Invalid PVSS transcript")
       ELSE Ok(NoValue)

\* verify_message on a Deal
verify_deal(d, sender, pvss) ==
    LET pos == verify_position(d, sender)
    IN IF pos = -1 THEN Err("dkg received unknown dealer")
       ELSE IF pos \in DOMAIN d.vss THEN Err("Repeat dealer")
       ELSE IF ~verify_optimistic(pvss) THEN Err("Invalid PVSS transcript")
       ELSE Ok(NoValue)

\* verify_aggregate without the comparison of the final key
verify_aggregate_any_key(d, aggregation, minimum_shares) ==
    LET verified_shares == verify_aggregation(aggregation.vss, d)
    IN IF ~minimum_shares.ok THEN minimum_shares
       ELSE IF ~verified_shares.ok THEN verified_shares
       ELSE IF LtU32(verified_shares.val, minimum_shares.val)
            THEN Err("Aggregation failed because the verified shares was insufficient")
       ELSE Ok(NoValue)

\* verify_message on an Aggregate, given the outcome of the subtraction
\* shares_num - security_threshold
verify_aggregate(d, aggregation, minimum_shares) ==
    LET verified_shares == verify_aggregation(aggregation.vss, d)
    IN IF ~minimum_shares.ok THEN minimum_shares
       ELSE IF ~verified_shares.ok THEN verified_shares
       ELSE IF LtU32(verified_shares.val, minimum_shares.val)
            THEN Err("Aggregation failed because the verified shares was insufficient")
       ELSE IF final_key(d) = aggregation.final_key THEN Ok(NoValue)
       ELSE Err("The final key was not correctly derived from the aggregated transcripts")

\* verify_message with the guard of the Deal arm narrowed to Sharing
verify_message_sharing_only(d, sender, payload) ==
    IF payload.kind = "Deal" /\ d.state.tag = "Sharing"
    THEN {verify_deal(d, sender, payload.pvss)}
    ELSE IF payload.kind = "Aggregate" /\ d.state.tag = "Dealt"
    THEN {verify_aggregate(d, payload.aggregation, minimum_shares) :
              minimum_shares \in SubU32(d.params.shares_num,
                                        d.params.security_threshold)}
    ELSE {Err("DKG state machine is not in correct state to verify this message")}

\* PubliclyVerifiableDkg::verify_message: the set of its outcomes (one,
\* unless the subtraction underflows)
verify_message(d, sender, payload) ==
    IF payload.kind = "Deal" /\ d.state.tag \in {"Sharing", "Dealt"}
    THEN {verify_deal(d, sender, payload.pvss)}
    ELSE IF payload.kind = "Aggregate" /\ d.state.tag = "Dealt"
    THEN {verify_aggregate(d, payload.aggregation, minimum_shares) :
              minimum_shares \in SubU32(d.params.shares_num,
                                        d.params.security_threshold)}
    ELSE {Err("DKG state machine is not in correct state to verify this message")}

\* deal_state counting from 0 again once the state is no longer Sharing
deal_state_recount(d) ==
    LET accumulated_shares ==
            (IF d.state.tag = "Sharing"
             THEN d.state.accumulated_shares ELSE 0) + 1
    IN IF ~LtU32(accumulated_shares, d.params.security_threshold)
       THEN Dealt
       ELSE Sharing(accumulated_shares, 0)

\* deal_state with the threshold comparison > in place of >=
deal_state_strict(d) ==
    IF d.state.tag = "Sharing"
    THEN LET accumulated_shares == d.state.accumulated_shares + 1
         IN IF LtU32(d.params.security_threshold, accumulated_shares)
            THEN Dealt
            ELSE Sharing(accumulated_shares, d.state.block)
    ELSE d.state

\* the state after a Deal was stored: accumulated_shares += 1, and Dealt
\* once the security threshold is met
deal_state(d) ==
    IF d.state.tag = "Sharing"
    THEN LET accumulated_shares == d.state.accumulated_shares + 1
         IN IF ~LtU32(accumulated_shares, d.params.security_threshold)
            THEN Dealt
            ELSE Sharing(accumulated_shares, d.state.block)
    ELSE d.state

\* apply_deal counting the Deal before its sender is looked up
apply_deal_count_first(d, sender, pvss) ==
    LET counted == [d EXCEPT !.state = deal_state(d)]
        pos == apply_position(d, sender)
    IN IF pos = -1
       THEN [res |-> Err("dkg received unknown dealer"), dkg |-> counted]
       ELSE [res |-> Ok(NoValue),
             dkg |-> [counted EXCEPT !.vss = MapInsert(d.vss, pos, pvss)]]

\* apply_deal refusing a sender that has a transcript stored
apply_deal_once(d, sender, pvss) ==
    LET pos == apply_position(d, sender)
    IN IF pos = -1
       THEN [res |-> Err("dkg received unknown dealer"), dkg |-> d]
       ELSE IF pos \in DOMAIN d.vss
       THEN [res |-> Err("Repeat dealer"), dkg |-> d]
       ELSE LET stored == [d EXCEPT !.vss = MapInsert(d.vss, pos, pvss)]
            IN [res |-> Ok(NoValue),
                dkg |-> [stored EXCEPT !.state = deal_state(stored)]]

\* apply_message on a Deal: the result and the DKG after it
apply_deal(d, sender, pvss) ==
    LET pos == apply_position(d, sender)
    IN IF pos = -1
       THEN [res |-> Err("dkg received unknown dealer"), dkg |-> d]
       ELSE LET stored == [d EXCEPT !.vss = MapInsert(d.vss, pos, pvss)]
            IN [res |-> Ok(NoValue),
                dkg |-> [stored EXCEPT !.state = deal_state(stored)]]

\* apply_message on an Aggregate: the result and the DKG after it
apply_aggregate(d) ==
    [res |-> Ok(NoValue),
     dkg |-> [d EXCEPT !.state = Success(final_key(d))]]

\* apply_message with the Aggregate arm taken in every state
apply_message_unguarded(d, sender, payload) ==
    IF payload.kind = "Deal" /\ d.state.tag \in {"Sharing", "Dealt"}
    THEN apply_deal(d, sender, payload.pvss)
    ELSE IF payload.kind = "Aggregate"
    THEN apply_aggregate(d)
    ELSE [res |-> Err("DKG state machine is not in correct state to apply this message"),
          dkg |-> d]

\* apply_message taking the final key from the Aggregate it is given
apply_message_declared_key(d, sender, payload) ==
    IF payload.kind = "Deal" /\ d.state.tag \in {"Sharing", "Dealt"}
    THEN apply_deal(d, sender, payload.pvss)
    ELSE IF payload.kind = "Aggregate" /\ d.state.tag = "Dealt"
    THEN [res |-> Ok(NoValue),
          dkg |-> [d EXCEPT !.state = Success(payload.aggregation.final_key)]]
    ELSE [res |-> Err("DKG state machine is not in correct state to apply this message"),
          dkg |-> d]

\* PubliclyVerifiableDkg::apply_message: the result and the DKG after it
apply_message(d, sender, payload) ==
    IF payload.kind = "Deal" /\ d.state.tag \in {"Sharing", "Dealt"}
    THEN apply_deal(d, sender, payload.pvss)
    ELSE IF payload.kind = "Aggregate" /\ d.state.tag = "Dealt"
    THEN apply_aggregate(d)
    ELSE [res |-> Err("DKG state machine is not in correct state to apply this message"),
          dkg |-> d]

\* PubliclyVerifiableDkg::deal: the result and the DKG after it
deal(d, sender, pvss) ==
    LET pos == apply_position(d, sender)
    IN IF pos = -1
       THEN [res |-> Err("dkg received unknown dealer"), dkg |-> d]
       ELSE [res |-> Ok(NoValue),
             dkg |-> [d EXCEPT !.vss = MapInsert(d.vss, pos, pvss)]]

(***************************************************************************)
(* Inputs of the calls.                                                    *)
(***************************************************************************)
Range(seq) == {seq[i] : i \in 1..Len(seq)}

\* the validator lists a DKG is constructed with, of at most n entries
ValidatorLists(n) ==
    {gen_n_validators(k) : k \in 0..n}
        \cup {v \in {SharedAddressValidators} : Len(v) <= n}

\* the thresholds a DKG is constructed with
Thresholds == 0..MaxThreshold

\* an unknown sender ("fake-address" with a fresh key)
UnknownSender == ExternalValidator(FakeAddress, ForeignKey)

\* the senders of messages: every validator of the list, an unknown
\* sender, and the first validator's address under a key that is not its
\* own
Senders(d) ==
    {d.validators[i].validator : i \in 1..Len(d.validators)}
        \cup {UnknownSender,
              ExternalValidator(d.validators[1].validator.address, ForeignKey)}

\* transcripts a Deal can carry
PvssTranscripts == {Pvss(c, v) : c \in G1, v \in BOOLEAN}

\* aggregated transcripts an Aggregate can carry
AggregatedTranscripts ==
    {AggregatedPvss(n, v) : n \in 0..MaxSharesVerified, v \in BOOLEAN}

Messages ==
    {MessageDeal(p) : p \in PvssTranscripts}
        \cup {MessageAggregate(Aggregation(a, k)) :
                  a \in AggregatedTranscripts, k \in G1}

(***************************************************************************)
(* The state machine.                                                      *)
(***************************************************************************)
\* the last call: the operation, the kind of message it was given (for
\* verify_message and apply_message) and what it returned
Call(op, arg, res) == [op |-> op, arg |-> arg, res |-> res]

\* no threshold key has been set up
NoKey == [stage |-> "none"]

\* no second DKG instance is run
NoPeer == [state |-> [tag |-> "NoPeer"]]

\* the DKGs that new returns for the validator lists of at most n entries
\* with shares_num the length of the list, and for the validators `me`
\* at the positions of `mes` and an unknown one
NewDkgs(n, mes) ==
    {new(validators, Params(0, t, Len(validators)), me).val :
        <<validators, t, me>> \in
            {x \in ValidatorLists(n) \X Thresholds
                       \X ({ExternalValidator(a, a) : a \in mes}
                               \cup {UnknownSender}) :
                new(x[1], Params(0, x[2], Len(x[1])), x[3]).ok}}

Init ==
    /\ dkg \in NewDkgs(MaxShares, 0..MaxShares)
    /\ ret = Call("new", "", Ok(NoValue))
    /\ tpke = NoKey
    /\ peer = NoPeer

\* share storing the transcript it dealt under the dealer's own position
ShareAndStore ==
    \E s \in G1 :
        LET shared == share(dkg, s)
        IN /\ ret' = Call("share", "", shared)
           /\ dkg' = IF shared.ok
                     THEN [dkg EXCEPT
                              !.vss = MapInsert(dkg.vss, dkg.me,
                                                shared.val.pvss)]
                     ELSE dkg
           /\ UNCHANGED <<tpke, peer>>

\* a call of share with the secret s sampled from the rng; self is not
\* written
Share ==
    \E s \in G1 :
        /\ ret' = Call("share", "", share(dkg, s))
        /\ UNCHANGED <<dkg, tpke, peer>>

\* a call of final_key
FinalKey ==
    /\ ret' = Call("final_key", "", Ok(final_key(dkg)))
    /\ UNCHANGED <<dkg, tpke, peer>>

Aggregate ==
    /\ ret' = Call("aggregate", "", aggregate(dkg))
    /\ UNCHANGED <<dkg, tpke, peer>>

VerifyMessage ==
    \E sender \in Senders(dkg), payload \in Messages :
        \E outcome \in verify_message(dkg, sender, payload) :
            /\ ret' = Call("verify_message", payload.kind, outcome)
            /\ UNCHANGED <<dkg, tpke, peer>>

ApplyMessage ==
    \E sender \in Senders(dkg), payload \in Messages :
        LET applied == apply_message(dkg, sender, payload)
        IN /\ dkg' = applied.dkg
           /\ ret' = Call("apply_message", payload.kind, applied.res)
           /\ UNCHANGED <<tpke, peer>>

DealTranscript ==
    \E sender \in Senders(dkg), pvss \in PvssTranscripts :
        LET dealt == deal(dkg, sender, pvss)
        IN /\ dkg' = dealt.dkg
           /\ ret' = Call("deal", "Deal", dealt.res)
           /\ UNCHANGED <<tpke, peer>>

Next ==
    \/ Share
    \/ Aggregate
    \/ FinalKey
    \/ VerifyMessage
    \/ ApplyMessage
    \/ DealTranscript

Spec == Init /\ [][Next]_vars

\* the caller the state machine is written for: a message is applied
\* only after verify_message accepted it in the same state
VerifiedApplyMessage ==
    \E sender \in Senders(dkg), payload \in Messages :
        /\ \E outcome \in verify_message(dkg, sender, payload) : outcome.ok
        /\ LET applied == apply_message(dkg, sender, payload)
           IN /\ dkg' = applied.dkg
              /\ ret' = Call("apply_message", payload.kind, applied.res)
              /\ UNCHANGED <<tpke, peer>>

NextVerified ==
    \/ Share
    \/ Aggregate
    \/ FinalKey
    \/ VerifyMessage
    \/ VerifiedApplyMessage

InitVerified ==
    /\ dkg \in NewDkgs(MaxSharesVerified, {0})
    /\ ret = Call("new", "", Ok(NoValue))
    /\ tpke = NoKey
    /\ peer = NoPeer

SpecVerified == InitVerified /\ [][NextVerified]_vars

\* The construction of a DKG. Before new has returned there is no DKG,
\* and none after it returned an error.
NotConstructed == [state |-> [tag |-> "NotConstructed"]]

\* the validators that construct a DKG: those of gen_n_validators, an
\* unknown one, and the address of the first under a key not its own
Constructors ==
    {ExternalValidator(a, a) : a \in 0..(MaxSharesVerified - 1)}
        \cup {UnknownSender, ExternalValidator(0, ForeignKey)}

\* the parameters a DKG is constructed with
ParamsOfNew ==
    {Params(0, t, n) : t \in Thresholds, n \in 0..MaxSharesVerified}

InitNew ==
    /\ dkg = NotConstructed
    /\ ret = Call("none", "", Ok(NoValue))
    /\ tpke = NoKey
    /\ peer = NoPeer

\* a call of new: the arguments are kept with the result
Construct ==
    /\ dkg = NotConstructed
    /\ ret.op = "none"
    /\ \E validators \in ValidatorLists(MaxSharesVerified),
          params \in ParamsOfNew, me \in Constructors :
           LET made == new(validators, params, me)
           IN /\ ret' = Call("new",
                             [validators |-> validators, params |-> params,
                              me |-> me],
                             made)
              /\ dkg' = IF made.ok THEN made.val ELSE NotConstructed
              /\ UNCHANGED <<tpke, peer>>

NextNew == Construct

SpecNew == InitNew /\ [][NextNew]_vars

\* Two replicas: the DKGs of the first validator of a list and of the
\* second or the last one, constructed with the same parameters, which
\* are given the same messages in the same order. Each calls
\* verify_message and, when that accepts, apply_message.
verified_apply(d, sender, payload, verified) ==
    IF verified.ok THEN apply_message(d, sender, payload)
    ELSE [res |-> verified, dkg |-> d]

InitReplicas ==
    /\ \E validators \in ValidatorLists(MaxSharesVerified), t \in Thresholds :
           \E i \in {j \in {2, Len(validators)} : 2 <= j /\ j <= Len(validators)} :
               LET params == Params(0, t, Len(validators))
                   mine == new(validators, params, validators[1])
                   theirs == new(validators, params, validators[i])
               IN /\ mine.ok
                  /\ theirs.ok
                  /\ dkg = mine.val
                  /\ peer = theirs.val
    /\ ret = Call("new", "", Ok(NoValue))
    /\ tpke = NoKey

\* the next message of the stream is processed by both replicas
Deliver ==
    \E sender \in Senders(dkg), payload \in Messages :
        \E mine \in verify_message(dkg, sender, payload),
           theirs \in verify_message(peer, sender, payload) :
            /\ dkg' = verified_apply(dkg, sender, payload, mine).dkg
            /\ peer' = verified_apply(peer, sender, payload, theirs).dkg
            /\ ret' = Call("deliver", payload.kind,
                           verified_apply(dkg, sender, payload, mine).res)
            /\ UNCHANGED tpke

NextReplicas == Deliver

SpecReplicas == InitReplicas /\ [][NextReplicas]_vars

\* A run of the protocol: the validators deal, an aggregate is published
\* whenever the threshold is met, and any other message may arrive in
\* between; every message is applied only after verify_message accepted
\* it. The DKG is that of the first validator of the list.
InitLive ==
    /\ \E validators \in ValidatorLists(MaxSharesVerified), t \in Thresholds :
           \E shares_num \in 1..MaxSharesVerified :
               LET made == new(validators, Params(0, t, shares_num),
                               ExternalValidator(0, 0))
               IN /\ made.ok
                  /\ dkg = made.val
    /\ ret = Call("new", "", Ok(NoValue))
    /\ tpke = NoKey
    /\ peer = NoPeer

\* the Deal that the validator at position i - 1 made with share() is
\* delivered, verified and applied
DeliverDeal(i) ==
    /\ i <= Len(dkg.validators)
    /\ \E s \in G1 :
           LET sender == dkg.validators[i].validator
               dealt == share(dkg, s)
           IN /\ dealt.ok
              /\ \E outcome \in verify_message(dkg, sender, dealt.val) :
                     outcome.ok
              /\ dkg' = apply_message(dkg, sender, dealt.val).dkg
              /\ ret' = Call("apply_message", "Deal",
                             apply_message(dkg, sender, dealt.val).res)
              /\ UNCHANGED <<tpke, peer>>

\* in state Dealt the message of aggregate() is published by the first
\* validator, verified and, when accepted, applied
PublishAggregate ==
    /\ aggregate(dkg).ok
    /\ \E outcome \in verify_message(dkg, dkg.validators[1].validator, aggregate(dkg).val) :
           LET applied == verified_apply(dkg, dkg.validators[1].validator,
                                         aggregate(dkg).val, outcome)
           IN /\ dkg' = applied.dkg
              /\ ret' = Call("aggregate", "Aggregate", applied.res)
              /\ UNCHANGED <<tpke, peer>>

NextLive ==
    \/ \E i \in 1..MaxSharesVerified : DeliverDeal(i)
    \/ PublishAggregate
    \/ VerifiedApplyMessage

\* every validator's Deal is eventually delivered while it is accepted,
\* and an aggregate is eventually published while the state is Dealt
FairLive ==
    /\ \A i \in 1..MaxSharesVerified : WF_vars(DeliverDeal(i))
    /\ WF_vars(PublishAggregate)

SpecLive == InitLive /\ [][NextLive]_vars /\ FairLive

(***************************************************************************)
(* Threshold encryption (tpke).                                            *)
(*                                                                         *)
(* The scalar field Fr is modelled by the prime field Z_FieldOrder. A      *)
(* point of G1 is a multiple a.g of the generator and is held as a. A      *)
(* point of G2 is a sum a.h + c1.H(x1) + ... of a multiple of the          *)
(* generator and of multiples of points hashed to the curve, and an        *)
(* element of Fqk the same over e(g, h) and e(g, H(x)): the hash to G2 is  *)
(* free, with no relation between the points it gives. A scalar drawn by   *)
(* the rng is not zero.                                                    *)
(***************************************************************************)
\* the modulus of Fr; its multiplicative group has a subgroup for every
\* radix-2 domain of up to FieldOrder - 1 points
FieldOrder == 5

Fr == 0..(FieldOrder - 1)

\* the scalars the rng draws
Scalars == 1..(FieldOrder - 1)

FrAdd(a, b) == (a + b) % FieldOrder

FrNeg(a) == (FieldOrder - a) % FieldOrder

FrSub(a, b) == FrAdd(a, FrNeg(b))

FrMul(a, b) == (a * b) % FieldOrder

\* Field::inverse of a nonzero scalar
FrInverse(a) == CHOOSE x \in Fr : FrMul(a, x) = 1

RECURSIVE FrPow(_, _)
FrPow(a, n) == IF n = 0 THEN 1 ELSE FrMul(a, FrPow(a, n - 1))

\* the generators g of G1 and h of G2, and -g as g_inv
G1Generator == 1

G1Inverse == FrNeg(G1Generator)

\* the coefficient of the hashed point H(x) in a point or element
HashedCoefficient(hp, x) ==
    IF \E e \in hp : e[1] = x
    THEN (CHOOSE e \in hp : e[1] = x)[2]
    ELSE 0

\* the part over hashed points of a sum, a multiple
HashedAdd(hp, hq) ==
    {<<x, FrAdd(HashedCoefficient(hp, x), HashedCoefficient(hq, x))>> :
        x \in {e[1] : e \in hp \cup hq}} \ {<<e[1], 0>> : e \in hp \cup hq}

HashedMul(hp, k) ==
    {<<e[1], FrMul(e[2], k)>> : e \in hp} \ {<<e[1], 0>> : e \in hp}

\* the point a.h of G2
G2Point(a) == [h |-> a, hashed |-> {}]

G2Generator == G2Point(1)

G2Add(p, q) ==
    [h |-> FrAdd(p.h, q.h), hashed |-> HashedAdd(p.hashed, q.hashed)]

G2Mul(p, k) == [h |-> FrMul(p.h, k), hashed |-> HashedMul(p.hashed, k)]

\* E::pairing of the point a.g with a point of G2, an element of Fqk
pairing(a, q) == [gh |-> FrMul(a, q.h), hashed |-> HashedMul(q.hashed, a)]

FqkOne == [gh |-> 0, hashed |-> {}]

\* the product of two elements of Fqk and a power of one
FqkMul(s, t) ==
    [gh |-> FrAdd(s.gh, t.gh), hashed |-> HashedAdd(s.hashed, t.hashed)]

FqkPow(s, k) == [gh |-> FrMul(s.gh, k), hashed |-> HashedMul(s.hashed, k)]

\* hash_to_g2: the point hashed from a message
hash_to_g2(message) == [h |-> 0, hashed |-> {<<message, 1>>}]

\* construct_tag_hash that leaves the aad out of the hash
construct_tag_hash_without_aad(u, stream_ciphertext, aad) ==
    hash_to_g2(<<u, stream_ciphertext>>)

\* construct_tag_hash: the hash of the commitment, the symmetric
\* ciphertext and the aad
construct_tag_hash(u, stream_ciphertext, aad) ==
    hash_to_g2(<<u, stream_ciphertext, aad>>)

\* usize::next_power_of_two
RECURSIVE next_power_of_two(_, _)
next_power_of_two(n, size) ==
    IF size >= n THEN size ELSE next_power_of_two(n, 2 * size)

\* Radix2EvaluationDomain::new(num_coeffs): the subgroup of Fr of the
\* least power of two that is num_coeffs or more, if Fr has one
Radix2EvaluationDomain(num_coeffs) ==
    LET size == next_power_of_two(num_coeffs, 1)
        generators ==
            {w \in Scalars :
                /\ FrPow(w, size) = 1
                /\ \A k \in 1..(size - 1) : FrPow(w, k) # 1}
    IN IF generators = {} THEN Panic("called Option::unwrap() on a None value")
       ELSE LET group_gen == CHOOSE w \in generators : TRUE
            IN Ok([size |-> size,
                   group_gen |-> group_gen,
                   group_gen_inv |-> FrInverse(group_gen)])

\* EvaluationDomain::elements: 1, w, w^2, ...
domain_elements(domain) == [i \in 1..domain.size |-> FrPow(domain.group_gen, i - 1)]

\* Polynomial::evaluate of the polynomial with the coefficients coeffs,
\* the constant term first
RECURSIVE evaluate(_, _)
evaluate(coeffs, x) ==
    IF coeffs = << >> THEN 0
    ELSE FrAdd(Head(coeffs), FrMul(x, evaluate(Tail(coeffs), x)))

\* PrivateKeyShare::blind
blind(private_key_share, b) == G2Mul(private_key_share, b)

SetupParams(b) ==
    [b |-> b, b_inv |-> FrInverse(b), g |-> G1Generator,
     h_inv |-> G2Mul(G2Generator, FrNeg(1)), g_inv |-> G1Inverse,
     h |-> G2Generator]

\* the public contexts of setup_simple with h as the public key of every
\* validator
PublicDecryptionContextsUnkeyed(shares_x, evals, b) ==
    [i \in 1..Len(shares_x) |->
        [domain |-> shares_x[i],
         public_key_share |-> FrMul(G1Generator, evals[i]),
         blinded_key_share |-> blind(G2Mul(G2Generator, evals[i]), b[i]),
         h |-> G2Generator,
         validator_public_key |-> G2Generator]]

\* the public contexts that setup_simple builds from the evaluations of
\* the polynomial over the domain and from the blinding factors b
PublicDecryptionContextsSimple(shares_x, evals, b) ==
    [i \in 1..Len(shares_x) |->
        [domain |-> shares_x[i],
         public_key_share |-> FrMul(G1Generator, evals[i]),
         blinded_key_share |-> blind(G2Mul(G2Generator, evals[i]), b[i]),
         h |-> G2Generator,
         validator_public_key |-> G2Mul(G2Generator, b[i])]]

\* DensePolynomial::from_coefficients_vec, which DensePolynomial::rand
\* ends with: the zero coefficients of the highest degrees are dropped
RECURSIVE from_coefficients_vec(_)
from_coefficients_vec(coeffs) ==
    IF coeffs = << >> THEN << >>
    ELSE IF coeffs[Len(coeffs)] = 0
         THEN from_coefficients_vec(SubSeq(coeffs, 1, Len(coeffs) - 1))
         ELSE coeffs

\* the panic that ends a set-up before it returns, if there is one:
\* the assertion, threshold - 1, the domain, coeffs[0] and b.inverse()
SetupPanic(threshold, shares_num, threshold_poly, b, contexts_num) ==
    IF shares_num < threshold
    THEN Panic("assertion failed: shares_num >= threshold")
    ELSE IF threshold = 0 THEN Panic("attempt to subtract with overflow")
    ELSE IF ~Radix2EvaluationDomain(shares_num).ok
    THEN Radix2EvaluationDomain(shares_num)
    ELSE IF from_coefficients_vec(threshold_poly) = << >>
    THEN Panic("index out of bounds: the len is 0 but the index is 0")
    ELSE IF \E i \in 1..contexts_num : b[i] = 0
    THEN Panic("called Option::unwrap() on a None value")
    ELSE Ok(NoValue)

\* the private contexts of setup_simple
PrivateDecryptionContextsSimple(shares_x, evals, b) ==
    [i \in 1..Len(shares_x) |->
        [index |-> i - 1,
         setup_params |-> SetupParams(b[i]),
         private_key_share |-> G2Mul(G2Generator, evals[i]),
         validator_private_key |-> b[i],
         public_decryption_contexts |->
             PublicDecryptionContextsSimple(shares_x, evals, b)]]

\* setup_simple with the key taken from the first evaluation of the
\* polynomial, evals[0], in place of its constant term
setup_simple_key_from_evals(threshold, shares_num, threshold_poly, b) ==
    LET fft_domain == Radix2EvaluationDomain(shares_num)
        failed == SetupPanic(threshold, shares_num, threshold_poly, b,
                             fft_domain.val.size)
    IN IF ~failed.ok THEN failed
       ELSE LET coeffs == from_coefficients_vec(threshold_poly)
                shares_x == domain_elements(fft_domain.val)
                evals == [i \in 1..Len(shares_x) |->
                             evaluate(coeffs, shares_x[i])]
                x == evals[1]
            IN Ok([pubkey |-> FrMul(G1Generator, x),
                   privkey |-> G2Mul(G2Generator, x),
                   contexts |->
                       PrivateDecryptionContextsSimple(shares_x, evals, b)])

\* setup_simple(threshold, shares_num, rng), with the coefficients of the
\* polynomial and the blinding factors that the rng gives: one context
\* for every point of the domain
setup_simple(threshold, shares_num, threshold_poly, b) ==
    LET fft_domain == Radix2EvaluationDomain(shares_num)
        failed == SetupPanic(threshold, shares_num, threshold_poly, b,
                             fft_domain.val.size)
    IN IF ~failed.ok THEN failed
       ELSE LET coeffs == from_coefficients_vec(threshold_poly)
                shares_x == domain_elements(fft_domain.val)
                evals == [i \in 1..Len(shares_x) |->
                             evaluate(coeffs, shares_x[i])]
                x == coeffs[1]
            IN Ok([pubkey |-> FrMul(G1Generator, x),
                   privkey |-> G2Mul(G2Generator, x),
                   contexts |->
                       PrivateDecryptionContextsSimple(shares_x, evals, b)])

\* BlindedKeyShare::multiply_by_omega_inv
multiply_by_omega_inv(blinded_key_share, omega_inv) ==
    G2Mul(blinded_key_share, omega_inv)

\* the public contexts that setup_fast builds: one for each of the first
\* shares_num points of the domain
PublicDecryptionContextsFast(domain_points, domain_points_inv, evals, b) ==
    [i \in 1..Len(domain_points) |->
        [domain |-> domain_points[i],
         public_key_share |-> FrMul(G1Generator, evals[i]),
         blinded_key_share |->
             multiply_by_omega_inv(
                 blind(G2Mul(G2Generator, evals[i]), b[i]),
                 domain_points_inv[i]),
         lagrange_n_0 |-> domain_points[i],
         h_inv |-> G2Mul(G2Generator, FrNeg(1))]]

\* setup_fast(threshold, shares_num, rng)
setup_fast(threshold, shares_num, threshold_poly, b) ==
    LET fft_domain == Radix2EvaluationDomain(shares_num)
        failed == SetupPanic(threshold, shares_num, threshold_poly, b,
                             shares_num)
    IN IF ~failed.ok THEN failed
       ELSE LET coeffs == from_coefficients_vec(threshold_poly)
                domain_points ==
                    [i \in 1..shares_num |->
                        FrPow(fft_domain.val.group_gen, i - 1)]
                domain_points_inv ==
                    [i \in 1..shares_num |->
                        FrPow(fft_domain.val.group_gen_inv, i - 1)]
                evals == [i \in 1..shares_num |->
                             evaluate(coeffs, domain_points[i])]
                x == coeffs[1]
                public_contexts ==
                    PublicDecryptionContextsFast(domain_points,
                                                 domain_points_inv, evals, b)
            IN Ok([pubkey |-> FrMul(G1Generator, x),
                   privkey |-> G2Mul(G2Generator, x),
                   contexts |->
                       [i \in 1..shares_num |->
                           [index |-> i - 1,
                            setup_params |-> SetupParams(b[i]),
                            private_key_share |->
                                G2Mul(G2Generator, evals[i]),
                            public_decryption_contexts |->
                                public_contexts]]])

\* the symmetric ciphertext of a message under the key derived from a
\* shared secret (shared_secret_to_chacha, ChaCha20Poly1305); altered
\* counts the bytes changed since it was sealed
Sealed(shared_secret, message) ==
    [key |-> shared_secret, message |-> message, altered |-> 0]

Ciphertext(commitment, auth_tag, ciphertext) ==
    [commitment |-> commitment, auth_tag |-> auth_tag,
     ciphertext |-> ciphertext]

\* encrypt(message, aad, pubkey, rng), with the scalar r that the rng
\* gives
encrypt(message, aad, pubkey, rand_element) ==
    LET product == pairing(FrMul(pubkey, rand_element), G2Generator)
        commitment == FrMul(G1Generator, rand_element)
        ciphertext == Sealed(product, message)
        auth_tag == G2Mul(construct_tag_hash(commitment, ciphertext, aad),
                          rand_element)
    IN Ciphertext(commitment, auth_tag, ciphertext)

\* check_ciphertext_validity: e(U, H(U, C, aad)) * e(-g, W) = 1
check_ciphertext_validity(c, aad, g_inv) ==
    LET hash_g2 == construct_tag_hash(c.commitment, c.ciphertext, aad)
    IN IF FqkMul(pairing(c.commitment, hash_g2), pairing(g_inv, c.auth_tag))
              = FqkOne
       THEN Ok(NoValue)
       ELSE Err("ciphertext verification failed")

\* decrypt_with_shared_secret: the symmetric decryption under the key
\* derived from the shared secret, which authenticates the ciphertext
decrypt_with_shared_secret(c, shared_secret) ==
    IF c.ciphertext.key = shared_secret /\ c.ciphertext.altered = 0
    THEN Ok(c.ciphertext.message)
    ELSE Err("plaintext verification failed")

\* checked_decrypt_with_shared_secret: the validity check, then the
\* symmetric decryption
checked_decrypt_with_shared_secret(c, aad, g_inv, shared_secret) ==
    LET valid == check_ciphertext_validity(c, aad, g_inv)
    IN IF ~valid.ok THEN valid
       ELSE decrypt_with_shared_secret(c, shared_secret)

\* checked_decrypt with the undivided private key
checked_decrypt(c, aad, g_inv, privkey) ==
    LET valid == check_ciphertext_validity(c, aad, g_inv)
    IN IF ~valid.ok THEN valid
       ELSE decrypt_with_shared_secret(c, pairing(c.commitment, privkey))

\* DecryptionShareSimple::create: the share e(U, Z_i) and the checksum
\* of the validator, U by the inverse of its private key
DecryptionShareSimpleCreate(validator_index, validator_decryption_key, private_key_share, ciphertext, aad, g_inv) ==
    LET valid == check_ciphertext_validity(ciphertext, aad, g_inv)
    IN IF ~valid.ok THEN valid
       ELSE Ok([decrypter_index |-> validator_index,
                decryption_share |->
                    pairing(ciphertext.commitment, private_key_share),
                validator_checksum |->
                    FrMul(ciphertext.commitment,
                          FrInverse(validator_decryption_key))])

\* PrivateDecryptionContextSimple::create_share
create_share_simple(context, ciphertext, aad) ==
    DecryptionShareSimpleCreate(context.index, context.validator_private_key,
                                context.private_key_share, ciphertext, aad,
                                context.setup_params.g_inv)

\* DecryptionShareSimple::verify: the share is the pairing of the checksum
\* with the blinded key share, and the checksum is bound to the key of
\* the validator
verify(this, share_aggregate, validator_public_key, h, ciphertext) ==
    /\ this.decryption_share
           = pairing(this.validator_checksum, share_aggregate)
    /\ pairing(this.validator_checksum, validator_public_key)
           = pairing(ciphertext.commitment, h)

\* verify_decryption_shares_simple: every share against the public
\* context of its position
verify_decryption_shares_simple(pub_contexts, ciphertext, decryption_shares) ==
    \A i \in 1..Len(decryption_shares) :
        verify(decryption_shares[i], pub_contexts[i].blinded_key_share,
               pub_contexts[i].validator_public_key, pub_contexts[i].h,
               ciphertext)

\* the product of (x - shares_x[i]) / (shares_x[j] - shares_x[i]) over
\* the positions i # j from n on: the Lagrange basis of position j at x
RECURSIVE lagrange_basis_at(_, _, _, _)
lagrange_basis_at(shares_x, j, x, n) ==
    IF n > Len(shares_x) THEN 1
    ELSE IF n = j THEN lagrange_basis_at(shares_x, j, x, n + 1)
    ELSE FrMul(FrMul(FrSub(x, shares_x[n]),
                     FrInverse(FrSub(shares_x[j], shares_x[n]))),
               lagrange_basis_at(shares_x, j, x, n + 1))

\* prepare_combine_simple: the Lagrange coefficients at 0
prepare_combine_simple(shares_x) ==
    [j \in 1..Len(shares_x) |-> lagrange_basis_at(shares_x, j, 0, 1)]

\* share_combine_simple: the product of the shares, each to the power of
\* its Lagrange coefficient, over the shares that have one
RECURSIVE share_combine_simple(_, _)
share_combine_simple(decryption_shares, lagrange_coeffs) ==
    IF decryption_shares = << >> \/ lagrange_coeffs = << >> THEN FqkOne
    ELSE FqkMul(FqkPow(Head(decryption_shares).decryption_share,
                       Head(lagrange_coeffs)),
                share_combine_simple(Tail(decryption_shares),
                                     Tail(lagrange_coeffs)))

\* PrivateDecryptionContextSimple::create_share_precomputed: the share
\* of [lagrange_coeff] U
create_share_precomputed(context, ciphertext, lagrange_coeff) ==
    [decrypter_index |-> context.index,
     decryption_share |->
         pairing(FrMul(ciphertext.commitment, lagrange_coeff),
                 context.private_key_share)]

\* share_combine_simple_precomputed: the product of the shares
RECURSIVE share_combine_simple_precomputed(_)
share_combine_simple_precomputed(shares) ==
    IF shares = << >> THEN FqkOne
    ELSE FqkMul(Head(shares).decryption_share,
                share_combine_simple_precomputed(Tail(shares)))

\* the entries of a sequence at the positions of a set, in their order
RECURSIVE SelectAt(_, _, _)
SelectAt(seq, positions, n) ==
    IF n > Len(seq) THEN << >>
    ELSE IF n \in positions
         THEN <<seq[n]>> \o SelectAt(seq, positions, n + 1)
         ELSE SelectAt(seq, positions, n + 1)

\* make_shared_secret of the tests: the Lagrange coefficients of the
\* domain points of the public contexts, then share_combine_simple
make_shared_secret(pub_contexts, decryption_shares) ==
    LET domain == [i \in 1..Len(pub_contexts) |-> pub_contexts[i].domain]
        lagrange == prepare_combine_simple(domain)
    IN share_combine_simple(decryption_shares, lagrange)

\* PrivateDecryptionContextFast::create_share: the validity check, then
\* the commitment with the blinding of the validator removed
create_share_fast(context, ciphertext, aad, g_inv) ==
    LET valid == check_ciphertext_validity(ciphertext, aad, g_inv)
    IN IF ~valid.ok THEN valid
       ELSE Ok([decrypter_index |-> context.index,
                decryption_share |->
                    FrMul(ciphertext.commitment,
                          context.setup_params.b_inv)])

\* make_random_polynomial_at with the constant term 1, whatever the root
make_random_polynomial_as_drawn(threshold, root, rand_coeffs) ==
    <<1>> \o SubSeq(rand_coeffs, 1, threshold - 1)

\* make_random_polynomial_at(threshold, root, rng): the polynomial of
\* threshold coefficients whose coefficients above the constant term are
\* the ones the rng gives and whose value at root is zero
make_random_polynomial_at(threshold, root, rand_coeffs) ==
    LET upper == <<0>> \o SubSeq(rand_coeffs, 1, threshold - 1)
    IN <<FrNeg(evaluate(upper, root))>> \o Tail(upper)

\* refresh_private_key_share that adds h to the share as well
refresh_private_key_share_plus_h(h, domain_point, polynomial, private_key_share) ==
    G2Add(private_key_share,
          G2Mul(h, FrAdd(1, evaluate(polynomial, domain_point))))

\* refresh_private_key_share: the share plus h by the value of the
\* polynomial at the domain point of the participant
refresh_private_key_share(h, domain_point, polynomial, private_key_share) ==
    G2Add(private_key_share, G2Mul(h, evaluate(polynomial, domain_point)))

\* prepare_share_updates_for_recovery: the updates of one participant
\* for the participants at domain_points, from a polynomial of its own
\* that vanishes at x_r
prepare_share_updates_for_recovery(domain_points, h, x_r, threshold, rand_coeffs) ==
    LET d_i == make_random_polynomial_at(threshold, x_r, rand_coeffs)
    IN [j \in 1..Len(domain_points) |->
           G2Mul(h, evaluate(d_i, domain_points[j]))]

\* update_share_for_recovery: the share plus the updates addressed to it
RECURSIVE update_share_for_recovery(_, _)
update_share_for_recovery(private_key_share, share_updates) ==
    IF share_updates = << >> THEN private_key_share
    ELSE update_share_for_recovery(
             G2Add(private_key_share, Head(share_updates)),
             Tail(share_updates))

\* the sum of the updated shares, each by the Lagrange basis at x_r of
\* its domain point, from position n on
RECURSIVE InterpolateFrom(_, _, _, _)
InterpolateFrom(x_r, domain_points, shares, n) ==
    IF n > Len(domain_points) \/ n > Len(shares) THEN G2Point(0)
    ELSE G2Add(G2Mul(shares[n], lagrange_basis_at(domain_points, n, x_r, 1)),
               InterpolateFrom(x_r, domain_points, shares, n + 1))

\* recover_share_from_updated_private_shares with the interpolation
\* taken at zero
recover_share_at_zero(x_r, domain_points, updated_private_shares) ==
    InterpolateFrom(0, domain_points, updated_private_shares, 1)

\* recover_share_from_updated_private_shares: the Lagrange interpolation
\* at x_r through the updated shares
recover_share_from_updated_private_shares(x_r, domain_points, updated_private_shares) ==
    InterpolateFrom(x_r, domain_points, updated_private_shares, 1)

\* the participants at the positions of a set, each with the public
\* contexts of these participants only
Quorum(contexts, positions) ==
    LET chosen == SelectAt(contexts, positions, 1)
    IN [i \in 1..Len(chosen) |->
           [chosen[i] EXCEPT !.public_decryption_contexts =
               SelectAt(@, positions, 1)]]

\* make_shared_secret_from_contexts of the tests: the share of every
\* context, unwrapped, then make_shared_secret over the public contexts
\* of the first
make_shared_secret_from_contexts(contexts, ciphertext, aad, g_inv) ==
    LET created == [i \in 1..Len(contexts) |->
                       create_share_simple(contexts[i], ciphertext, aad)]
    IN IF \E i \in 1..Len(contexts) : ~created[i].ok
       THEN Panic("called Result::unwrap() on an Err value")
       ELSE Ok(make_shared_secret(
                   contexts[1].public_decryption_contexts,
                   [i \in 1..Len(contexts) |-> created[i].val]))

(***************************************************************************)
(* The specification of a threshold key: it is set up, a message is        *)
(* encrypted to it, the ciphertext or the aad may be changed on the way,   *)
(* and the validators create their shares and decrypt.                     *)
(***************************************************************************)
MaxKeyThreshold == 3

KeyThresholds == 0..MaxKeyThreshold

\* up to one more share than the largest domain of Fr has points
KeySharesNums == 1..FieldOrder

\* the coefficients that DensePolynomial::rand(threshold - 1) draws
Polynomials(threshold) == [1..threshold -> Fr]

\* the blinding factors that the rng gives the validators: two draws
Blindings ==
    {[i \in Scalars |-> (i % (FieldOrder - 1)) + 1],
     [i \in Scalars |-> FieldOrder - 1 - (i % (FieldOrder - 1))]}

\* the scalars that the rng gives encrypt: two draws
RandElements == {2, FieldOrder - 1}

Plaintexts == {"abc"}

Aads == {"my-aad"}

\* the state of a key that a set-up returned
KeyOf(variant, threshold, shares_num, setup) ==
    [stage |-> "key",
     key |-> [variant |-> variant, threshold |-> threshold,
              shares_num |-> shares_num, pubkey |-> setup.pubkey,
              privkey |-> setup.privkey, contexts |-> setup.contexts]]

InitTpke ==
    /\ dkg = NotConstructed
    /\ ret = Call("none", NoValue, Ok(NoValue))
    /\ tpke = NoKey
    /\ peer = NoPeer

SetupSimple ==
    /\ tpke = NoKey
    /\ ret.op = "none"
    /\ \E threshold \in KeyThresholds, shares_num \in KeySharesNums,
          b \in Blindings :
          \E threshold_poly \in Polynomials(threshold) :
              LET res == setup_simple(threshold, shares_num,
                                      threshold_poly, b)
              IN /\ ret' = Call("setup_simple", <<threshold, shares_num>>,
                                IF res.ok THEN Ok(NoValue) ELSE res)
                 /\ tpke' = IF res.ok
                            THEN KeyOf("simple", threshold, shares_num,
                                       res.val)
                            ELSE tpke
    /\ UNCHANGED <<dkg, peer>>

SetupFast ==
    /\ tpke = NoKey
    /\ ret.op = "none"
    /\ \E threshold \in KeyThresholds, shares_num \in KeySharesNums,
          b \in Blindings :
          \E threshold_poly \in Polynomials(threshold) :
              LET res == setup_fast(threshold, shares_num, threshold_poly, b)
              IN /\ ret' = Call("setup_fast", <<threshold, shares_num>>,
                                IF res.ok THEN Ok(NoValue) ELSE res)
                 /\ tpke' = IF res.ok
                            THEN KeyOf("fast", threshold, shares_num,
                                       res.val)
                            ELSE tpke
    /\ UNCHANGED <<dkg, peer>>

Encrypt ==
    /\ tpke.stage = "key"
    /\ \E message \in Plaintexts, aad \in Aads,
          rand_element \in RandElements :
          /\ tpke' = [stage |-> "encrypted",
                      key |-> tpke.key,
                      message |-> message,
                      ciphertext |-> encrypt(message, aad, tpke.key.pubkey,
                                             rand_element),
                      aad |-> aad,
                      changes |-> {}]
          /\ ret' = Call("encrypt", <<message, aad>>, Ok(NoValue))
    /\ UNCHANGED <<dkg, peer>>

\* a byte of the symmetric ciphertext is changed on the way to the
\* validators, or the aad that they are given is another
Tamper ==
    /\ tpke.stage = "encrypted"
    /\ ret.op = "encrypt"
    /\ \/ /\ "ciphertext" \notin tpke.changes
          /\ tpke' = [tpke EXCEPT
                          !.ciphertext.ciphertext.altered = @ + 1,
                          !.changes = @ \cup {"ciphertext"}]
       \/ /\ "aad" \notin tpke.changes
          /\ tpke' = [tpke EXCEPT !.aad = "bad aad",
                                  !.changes = @ \cup {"aad"}]
    /\ UNCHANGED <<dkg, ret, peer>>

\* the g_inv that the tests take from the first context
GInv(key) == key.contexts[1].setup_params.g_inv

\* the validators of a set create their shares of the ciphertext, the
\* shares are combined and the ciphertext is decrypted
DecryptSimple ==
    /\ tpke.stage = "encrypted"
    /\ ret.op = "encrypt"
    /\ tpke.key.variant = "simple"
    /\ \E positions \in SUBSET (1..Len(tpke.key.contexts)) \ {{}} :
          LET contexts == Quorum(tpke.key.contexts, positions)
              created == [i \in 1..Len(contexts) |->
                             create_share_simple(contexts[i],
                                                 tpke.ciphertext, tpke.aad)]
              res ==
                  IF \E i \in 1..Len(contexts) : ~created[i].ok
                  THEN created[CHOOSE i \in 1..Len(contexts) :
                                   ~created[i].ok]
                  ELSE checked_decrypt_with_shared_secret(
                           tpke.ciphertext, tpke.aad, GInv(tpke.key),
                           make_shared_secret(
                               contexts[1].public_decryption_contexts,
                               [i \in 1..Len(contexts) |->
                                   created[i].val]))
          IN ret' = Call("decrypt", NoValue, res)
    /\ UNCHANGED <<dkg, tpke, peer>>

\* a validator of a key of the fast variant creates its share
CreateShareFast ==
    /\ tpke.stage = "encrypted"
    /\ ret.op = "encrypt"
    /\ tpke.key.variant = "fast"
    /\ \E i \in 1..Len(tpke.key.contexts) :
          LET res == create_share_fast(tpke.key.contexts[i],
                                       tpke.ciphertext, tpke.aad,
                                       GInv(tpke.key))
          IN ret' = Call("create_share", NoValue,
                         IF res.ok THEN Ok(NoValue) ELSE res)
    /\ UNCHANGED <<dkg, tpke, peer>>

\* a decryption share as it reaches the verifier: the one the validator
\* created, or that share with its validator_checksum multiplied by a
\* scalar, or with its decryption_share multiplied by an element of Fqk
Received(decryption_share, alteration, factor) ==
    IF alteration = "validator_checksum"
    THEN [decryption_share EXCEPT
              !.validator_checksum = FrMul(@, factor)]
    ELSE IF alteration = "decryption_share"
    THEN [decryption_share EXCEPT
              !.decryption_share =
                  FqkMul(@, pairing(factor, G2Generator))]
    ELSE decryption_share

\* a validator creates its share, the share reaches the verifier as it
\* is or altered, and the verifier checks it against the public context
\* of the validator
VerifyShare ==
    /\ tpke.stage = "encrypted"
    /\ tpke.key.variant = "simple"
    /\ ret.op = "encrypt"
    /\ \E i \in 1..Len(tpke.key.contexts),
          alteration \in {"none", "validator_checksum", "decryption_share"},
          factor \in Scalars \ {1} :
          LET created == create_share_simple(tpke.key.contexts[i],
                                             tpke.ciphertext, tpke.aad)
              pub_context ==
                  tpke.key.contexts[1].public_decryption_contexts[i]
          IN ret' = Call("verify", alteration,
                         IF ~created.ok
                         THEN Panic("called Result::unwrap() on an Err value")
                         ELSE Ok(verify(Received(created.val, alteration,
                                                 factor),
                                        pub_context.blinded_key_share,
                                        pub_context.validator_public_key,
                                        pub_context.h, tpke.ciphertext)))
    /\ UNCHANGED <<dkg, tpke, peer>>

NextTpke ==
    \/ SetupSimple
    \/ SetupFast
    \/ Encrypt
    \/ Tamper
    \/ DecryptSimple
    \/ VerifyShare
    \/ CreateShareFast

SpecTpke == InitTpke /\ [][NextTpke]_vars

(***************************************************************************)
(* The specification of the shares of a key after its set-up: the          *)
(* validators refresh their shares with the polynomial of a dealer, or the *)
(* last validator is removed and the others recover a share at a point.    *)
(***************************************************************************)
\* the coefficients that the rng gives a polynomial of share updates
RandCoeffs(threshold) == [1..(threshold - 1) -> {0, 1}]

\* the coefficients that the rng gives the participant of an index, when
\* it gave rand_coeffs to the first
RandCoeffsOf(rand_coeffs, index) ==
    [k \in DOMAIN rand_coeffs |-> FrAdd(rand_coeffs[k], FrMul(index, k))]

\* the contexts without the last participant, in them and in their
\* public contexts
remaining_participants(contexts) ==
    Quorum(contexts, 1..(Len(contexts) - 1))

\* the domain points of the public contexts of the first of the
\* participants
domain_points(participants) ==
    [j \in 1..Len(participants[1].public_decryption_contexts) |->
        participants[1].public_decryption_contexts[j].domain]

\* the updates that every remaining participant prepares for recovery at
\* x_r, by the index of the participant
share_updates(participants, x_r, threshold, rand_coeffs) ==
    [i \in 1..Len(participants) |->
        prepare_share_updates_for_recovery(
            domain_points(participants),
            participants[1].public_decryption_contexts[1].h,
            x_r, threshold,
            RandCoeffsOf(rand_coeffs, participants[i].index))]

\* the share of every remaining participant after the updates addressed
\* to it
new_share_fragments(participants, x_r, threshold, rand_coeffs) ==
    LET updates == share_updates(participants, x_r, threshold, rand_coeffs)
    IN [j \in 1..Len(participants) |->
           update_share_for_recovery(
               participants[j].private_key_share,
               [i \in 1..Len(participants) |->
                   updates[i][participants[j].index + 1]])]

\* the dealer draws a polynomial of threshold coefficients with the
\* constant term zero, and every validator adds to its share h by the
\* value of the polynomial at its domain point
Refresh ==
    /\ tpke.stage = "encrypted"
    /\ \E rand_coeffs \in RandCoeffs(tpke.key.threshold) :
          LET polynomial ==
                  make_random_polynomial_at(tpke.key.threshold, 0,
                                            rand_coeffs)
              contexts == tpke.key.contexts
          IN tpke' =
                 [stage |-> "refreshed",
                  key |-> tpke.key,
                  message |-> tpke.message,
                  ciphertext |-> tpke.ciphertext,
                  aad |-> tpke.aad,
                  polynomial |-> polynomial,
                  private_key_shares |->
                      [i \in 1..Len(contexts) |->
                          refresh_private_key_share(
                              contexts[i].setup_params.h,
                              contexts[i].public_decryption_contexts[i]
                                  .domain,
                              polynomial,
                              contexts[i].private_key_share)]]
    /\ ret' = Call("refresh", NoValue, Ok(NoValue))
    /\ UNCHANGED <<dkg, peer>>

\* the last validator is removed, the others prepare and add their
\* updates for the point x_r and the share at x_r is recovered from the
\* updated shares; with no validator left, the domain points are taken
\* from a participant that is not there
Recover ==
    /\ tpke.stage = "encrypted"
    /\ \E x_r \in Fr, rand_coeffs \in RandCoeffs(tpke.key.threshold) :
          IF Len(tpke.key.contexts) = 1
          THEN /\ ret' = Call("recover", x_r,
                              Panic("index out of bounds: the len is 0 but the index is 0"))
               /\ UNCHANGED <<tpke, peer>>
          ELSE LET participants ==
                       remaining_participants(tpke.key.contexts)
                   fragments ==
                       new_share_fragments(participants, x_r,
                                           tpke.key.threshold, rand_coeffs)
               IN /\ tpke' =
                         [stage |-> "recovered",
                          key |-> tpke.key,
                          message |-> tpke.message,
                          ciphertext |-> tpke.ciphertext,
                          aad |-> tpke.aad,
                          x_r |-> x_r,
                          new_share_fragments |-> fragments,
                          new_private_key_share |->
                              recover_share_from_updated_private_shares(
                                  x_r, domain_points(participants),
                                  fragments)]
                  /\ ret' = Call("recover", x_r, Ok(NoValue))
    /\ UNCHANGED <<dkg, peer>>

NextRefresh ==
    \/ SetupSimple
    \/ Encrypt
    \/ Refresh
    \/ Recover

SpecRefresh == InitTpke /\ [][NextRefresh]_vars

(***************************************************************************)
(* Vocabulary of the properties.                                           *)
(*                                                                         *)
(* A validator is identified by its address: the index of a sender is the  *)
(* first position of the list whose validator has the sender's address.    *)
(***************************************************************************)
AddressIndices(d, sender) ==
    {i \in 0..(Len(d.validators) - 1) :
        d.validators[i + 1].validator.address = sender.address}

KnownAddress(d, sender) == AddressIndices(d, sender) # {}

SenderIndex(d, sender) ==
    CHOOSE i \in AddressIndices(d, sender) :
        \A j \in AddressIndices(d, sender) : i <= j

\* the sender is known and a transcript is stored under its index
HasDealt(d, sender) ==
    KnownAddress(d, sender) /\ SenderIndex(d, sender) \in DOMAIN d.vss

\* the sender is one of the entries of the validator list
ListedValidator(d, sender) ==
    \E i \in 1..Len(d.validators) : d.validators[i].validator = sender

StateRank(state) ==
    CASE state.tag = "Sharing" -> 0
      [] state.tag = "Dealt" -> 1
      [] state.tag = "Success" -> 2

AggregateMessages == {m \in Messages : m.kind = "Aggregate"}

Rejected(outcomes) == \A r \in outcomes : ~r.ok

Accepted(outcomes) == \A r \in outcomes : r.ok

\* the sum of coeffs[0] over the stored transcripts: each element g of G1
\* is counted once for every transcript that commits to it
RECURSIVE WeightedSum(_, _)
WeightedSum(vss, elements) ==
    IF elements = {} THEN 0
    ELSE LET g == CHOOSE x \in elements : TRUE
         IN g * Cardinality({k \in DOMAIN vss : vss[k].coeffs0 = g})
                + WeightedSum(vss, elements \ {g})

StoredKey(d) == WeightedSum(d.vss, G1) % GroupOrder

\* the positions of the validators, one for each address of the list
Dealers(d) ==
    {i \in 1..Len(d.validators) :
        SenderIndex(d, d.validators[i].validator) = i - 1}

\* the orders in which the validators of a set can deal
Orderings(S) ==
    {order \in [1..Cardinality(S) -> S] :
        \A i, j \in 1..Cardinality(S) : order[i] = order[j] => i = j}

\* the DKG after apply_message of the Deals of the validators order[n..],
\* validator i dealing the transcript pvss[i]
RECURSIVE ApplyDeals(_, _, _, _)
ApplyDeals(d, order, pvss, n) ==
    IF n > Len(order) THEN d
    ELSE ApplyDeals(apply_message(d, d.validators[order[n]].validator,
                                  MessageDeal(pvss[order[n]])).dkg,
                    order, pvss, n + 1)

\* the state and the stored transcripts after the Deals in the given
\* order and then the Aggregate of the transcripts stored by then
DealtThenAggregated(d, order, pvss) ==
    LET dealt == ApplyDeals(d, order, pvss, 1)
        payload == MessageAggregate(Aggregation(pvss_aggregate(dealt),
                                                final_key(dealt)))
        applied == apply_message(dealt, dealt.validators[1].validator,
                                 payload).dkg
    IN [state |-> applied.state, vss |-> applied.vss]

\* n is a power of two: it is positive and every divisor of n other
\* than 1 is even
PowerOfTwo(n) ==
    n >= 1 /\ \A m \in 2..n : (n % m = 0) => (m % 2 = 0)

(***************************************************************************)
(* Properties of the state machine.                                        *)
(***************************************************************************)

\* C1: over any sequence of calls on one DKG the state never moves
\* backwards: Sharing, then Dealt, then Success.
C1_StateMonotone ==
    [][StateRank(dkg'.state) >= StateRank(dkg.state)]_vars

\* an apply_message was refused in state Success, which is kept
C1_Witness ==
    /\ dkg.state.tag = "Success"
    /\ ret.op = "apply_message"
    /\ ~ret.res.ok

\* C2: in state Sharing every successful apply_message of a Deal stores
\* the transcript under the sender's index, leaves the other transcripts
\* alone and counts accumulated_shares up by exactly 1; the state stays
\* Sharing while the new count is below security_threshold and is Dealt
\* otherwise.
C2_DealCounted ==
    dkg.state.tag = "Sharing" =>
        \A sender \in Senders(dkg), pvss \in PvssTranscripts :
            LET applied == apply_message(dkg, sender, MessageDeal(pvss))
                count == dkg.state.accumulated_shares + 1
            IN applied.res.ok =>
                /\ KnownAddress(dkg, sender)
                /\ DOMAIN applied.dkg.vss =
                       (DOMAIN dkg.vss) \cup {SenderIndex(dkg, sender)}
                /\ applied.dkg.vss[SenderIndex(dkg, sender)] = pvss
                /\ \A k \in (DOMAIN dkg.vss) \ {SenderIndex(dkg, sender)} :
                       applied.dkg.vss[k] = dkg.vss[k]
                /\ applied.dkg.state =
                       IF count < dkg.params.security_threshold
                       THEN Sharing(count, dkg.state.block)
                       ELSE Dealt

\* a second Deal was applied and the state is still Sharing
C2_Witness ==
    /\ dkg.state.tag = "Sharing"
    /\ dkg.state.accumulated_shares = 2
    /\ ret.op = "apply_message"
    /\ ret.arg = "Deal"
    /\ ret.res.ok

\* C3: whenever the state is Dealt, transcripts of at least
\* security_threshold distinct validators are stored, when every applied
\* message passed verify_message immediately before.
C3_DealtHoldsThreshold ==
    dkg.state.tag = "Dealt" =>
        Cardinality(DOMAIN dkg.vss) >= dkg.params.security_threshold

\* C4: verify_message rejects a Deal whose sender already has a
\* transcript stored.
C4_RepeatDealerRejected ==
    \A sender \in Senders(dkg), pvss \in PvssTranscripts :
        HasDealt(dkg, sender) =>
            Rejected(verify_message(dkg, sender, MessageDeal(pvss)))

\* C5: for a Deal whose sender has the address of no validator of the
\* list, verify_message and apply_message return an error and
\* apply_message leaves the DKG as it was (verify_message takes the DKG
\* by shared reference and has no effect in any case).
C5_UnknownSenderRejected ==
    \A sender \in Senders(dkg), pvss \in PvssTranscripts :
        ~KnownAddress(dkg, sender) =>
            LET applied == apply_message(dkg, sender, MessageDeal(pvss))
            IN /\ Rejected(verify_message(dkg, sender, MessageDeal(pvss)))
               /\ ~applied.res.ok
               /\ applied.dkg = dkg

\* apply_message refused the Deal of an unknown sender
C5_Witness ==
    /\ ret.op = "apply_message"
    /\ ret.arg = "Deal"
    /\ ret.res.err = "dkg received unknown dealer"

\* C6: in state Success a Deal is refused by verify_message and by
\* apply_message; in state Dealt a valid Deal of a listed validator that
\* has not dealt is accepted by both, stored, and the state stays Dealt.
C6_DealStateGuard ==
    \A sender \in Senders(dkg), pvss \in PvssTranscripts :
        LET applied == apply_message(dkg, sender, MessageDeal(pvss))
            verified == verify_message(dkg, sender, MessageDeal(pvss))
        IN /\ dkg.state.tag = "Success" =>
                  /\ Rejected(verified)
                  /\ ~applied.res.ok
                  /\ applied.dkg = dkg
           /\ ( /\ dkg.state.tag = "Dealt"
                /\ ListedValidator(dkg, sender)
                /\ ~HasDealt(dkg, sender)
                /\ verify_optimistic(pvss) ) =>
                  /\ Accepted(verified)
                  /\ applied.res.ok
                  /\ applied.dkg.state = Dealt
                  /\ applied.dkg.vss[SenderIndex(dkg, sender)] = pvss

\* a Deal was applied after the threshold had been met
C6_Witness ==
    /\ dkg.state.tag = "Dealt"
    /\ ret.op = "apply_message"
    /\ ret.arg = "Deal"
    /\ ret.res.ok
    /\ dkg.params.security_threshold >= 1
    /\ Cardinality(DOMAIN dkg.vss) > dkg.params.security_threshold

\* C7: in state Sharing and in state Success every Aggregate is refused
\* by verify_message and by apply_message, which leaves the DKG as it
\* was: an Aggregate delivered again after Success is rejected.
C7_AggregateStateGuard ==
    dkg.state.tag \in {"Sharing", "Success"} =>
        \A sender \in Senders(dkg), payload \in AggregateMessages :
            LET applied == apply_message(dkg, sender, payload)
            IN /\ Rejected(verify_message(dkg, sender, payload))
               /\ ~applied.res.ok
               /\ applied.dkg = dkg

\* an Aggregate was refused by apply_message after Success
C7_Witness ==
    /\ dkg.state.tag = "Success"
    /\ ret.op = "apply_message"
    /\ ret.arg = "Aggregate"
    /\ ~ret.res.ok

\* C8: aggregate() returns an Aggregate message exactly when the state is
\* Dealt, and an error in Sharing and in Success.
C8_AggregateOnlyDealt ==
    /\ aggregate(dkg).ok <=> dkg.state.tag = "Dealt"
    /\ aggregate(dkg).ok => aggregate(dkg).val.kind = "Aggregate"

\* aggregate() was refused after Success
C8_Witness ==
    /\ dkg.state.tag = "Success"
    /\ ret.op = "aggregate"
    /\ ~ret.res.ok

\* C9: share() returns a Deal message in state Sharing and in state Dealt
\* and an error in state Success.
C9_ShareStateGuard ==
    \A s \in G1 :
        /\ share(dkg, s).ok <=> dkg.state.tag \in {"Sharing", "Dealt"}
        /\ share(dkg, s).ok => share(dkg, s).val.kind = "Deal"

\* share() returned a Deal after the threshold had been met
C9_Witness ==
    /\ dkg.state.tag = "Dealt"
    /\ ret.op = "share"
    /\ ret.res.ok
    /\ ret.res.val.kind = "Deal"

\* C10: for 1 <= security_threshold <= shares_num, whenever the state is
\* Dealt after verified Deals, the message of aggregate() passes
\* verify_message on the same instance and applying it gives Success.
C10_OwnAggregateAccepted ==
    ( /\ dkg.state.tag = "Dealt"
      /\ 1 <= dkg.params.security_threshold
      /\ dkg.params.security_threshold <= dkg.params.shares_num ) =>
        \A sender \in Senders(dkg) :
            /\ aggregate(dkg).ok
            /\ Accepted(verify_message(dkg, sender, aggregate(dkg).val))
            /\ apply_message(dkg, sender, aggregate(dkg).val).dkg.state.tag
                   = "Success"

\* C11: in state Dealt, for 1 <= security_threshold <= shares_num,
\* verify_message refuses an Aggregate whose aggregated transcript
\* verifies as insufficient exactly when the number of transcripts it
\* verifies for is below security_threshold.
C11_ShareCountThreshold ==
    ( /\ dkg.state.tag = "Dealt"
      /\ 1 <= dkg.params.security_threshold
      /\ dkg.params.security_threshold <= dkg.params.shares_num ) =>
        \A sender \in Senders(dkg), payload \in AggregateMessages :
            payload.aggregation.vss.valid =>
                \A outcome \in verify_message(dkg, sender, payload) :
                    (outcome.err = "Aggregation failed because the verified shares was insufficient")
                        <=> (payload.aggregation.vss.count
                                 < dkg.params.security_threshold)

\* C12: verify_message refuses every Aggregate whose declared final_key
\* differs from the key derived from the stored transcripts, also when
\* the aggregated transcript verifies for all the shares.
C12_WrongFinalKeyRejected ==
    \A sender \in Senders(dkg), payload \in AggregateMessages :
        payload.aggregation.final_key # final_key(dkg) =>
            Rejected(verify_message(dkg, sender, payload))

\* an Aggregate passed the share-count check and was refused for its key
\* alone
C12_Witness ==
    /\ dkg.state.tag = "Dealt"
    /\ ret.op = "verify_message"
    /\ ret.arg = "Aggregate"
    /\ ret.res.err = "The final key was not correctly derived from the aggregated transcripts"

\* C13: applying an Aggregate in state Dealt succeeds and gives
\* Success{final_key} with final_key the sum of coeffs[0] over all stored
\* transcripts, whatever key and aggregated transcript the message
\* carries, and stores nothing.
C13_SuccessKeyFromStore ==
    dkg.state.tag = "Dealt" =>
        \A sender \in Senders(dkg), payload \in AggregateMessages :
            LET applied == apply_message(dkg, sender, payload)
            IN /\ applied.res.ok
               /\ applied.dkg.state = Success(StoredKey(dkg))
               /\ applied.dkg.vss = dkg.vss

\* an Aggregate was applied over two stored transcripts whose sum is not
\* the zero of G1
C13_Witness ==
    /\ dkg.state.tag = "Success"
    /\ ret.op = "apply_message"
    /\ ret.arg = "Aggregate"
    /\ ret.res.ok
    /\ Cardinality(DOMAIN dkg.vss) >= 2
    /\ dkg.state.final_key # G1Zero

\* C14: for every set of validators with distinct addresses that have not
\* dealt, each dealing one valid transcript, the state and the stored
\* transcripts after applying the Deals and then one valid Aggregate are
\* the same for every order of the Deals.
C14_DealOrderIrrelevant ==
    \A S \in SUBSET {i \in Dealers(dkg) : (i - 1) \notin DOMAIN dkg.vss} :
        \A pvss \in [S -> {p \in PvssTranscripts : verify_optimistic(p)}] :
            LET first == CHOOSE order \in Orderings(S) : TRUE
                result == DealtThenAggregated(dkg, first, pvss)
            IN \A second \in Orderings(S) :
                   DealtThenAggregated(dkg, second, pvss) = result

\* three Deals with transcripts that are not all the same, and then an
\* Aggregate, were applied
C14_Witness ==
    /\ dkg.state.tag = "Success"
    /\ ret.op = "apply_message"
    /\ ret.arg = "Aggregate"
    /\ ret.res.ok
    /\ Cardinality(DOMAIN dkg.vss) >= 3
    /\ \E i, j \in DOMAIN dkg.vss : dkg.vss[i] # dkg.vss[j]

\* C19: share, aggregate, verify_message and final_key leave the DKG as
\* it was, whether they return a value or an error; share does not store
\* the transcript it deals.
C19_ReadOnlyCalls ==
    [][ret'.op \in {"share", "aggregate", "verify_message", "final_key"}
           => dkg' = dkg]_vars

\* share returned a Deal and no transcript is stored
C19_Witness ==
    /\ ret.op = "share"
    /\ ret.res.ok
    /\ ret.res.val.kind = "Deal"
    /\ DOMAIN dkg.vss = {}
    /\ dkg.state = Sharing(0, 0)

\* C20: every apply_message that returns an error, for a message in the
\* wrong state or for a Deal of an unknown sender, leaves the state, with
\* its accumulated_shares, and the stored transcripts as they were.
C20_FailedApplyKeepsDkg ==
    \A sender \in Senders(dkg), payload \in Messages :
        LET applied == apply_message(dkg, sender, payload)
        IN ~applied.res.ok =>
               /\ applied.dkg.state = dkg.state
               /\ applied.dkg.vss = dkg.vss
               /\ applied.dkg = dkg

\* the Deal of an unknown sender was refused after one Deal had been
\* counted, and the count and the transcript are kept
C20_Witness ==
    /\ ret.op = "apply_message"
    /\ ~ret.res.ok
    /\ ret.arg = "Deal"
    /\ dkg.state = Sharing(1, 0)
    /\ Cardinality(DOMAIN dkg.vss) = 1

\* C21: in state Sharing or Dealt the Deal that share() returns, sent by
\* any validator of the list that has no transcript stored, the
\* instance's own validator included, passes verify_message.
C21_FreshDealAccepted ==
    dkg.state.tag \in {"Sharing", "Dealt"} =>
        \A i \in 1..Len(dkg.validators), s \in G1 :
            LET sender == dkg.validators[i].validator
                dealt == share(dkg, s)
            IN /\ dealt.ok
               /\ dealt.val.kind = "Deal"
               /\ ~HasDealt(dkg, sender) =>
                      Accepted(verify_message(dkg, sender, dealt.val))

\* a Deal was accepted by verify_message in state Dealt while a validator
\* had not dealt
C21_Witness ==
    /\ dkg.state.tag = "Dealt"
    /\ ret.op = "verify_message"
    /\ ret.arg = "Deal"
    /\ ret.res.ok
    /\ Len(dkg.validators) = 4
    /\ Cardinality(DOMAIN dkg.vss) = 2

\* C22: two rejections by verify_message that have different causes are
\* returned as different kinds of error.
C22_DistinctErrorKinds ==
    \A sender, other \in Senders(dkg), payload, another \in Messages :
        \A r \in verify_message(dkg, sender, payload),
           q \in verify_message(dkg, other, another) :
            (~r.ok /\ ~q.ok /\ r.err # q.err) =>
                ErrorVariant(r) # ErrorVariant(q)

\* C23: a sender with the address of a validator of the list is the
\* validator at that position for verify_message and for apply_message,
\* whatever public key it carries: its valid Deal is accepted and stored
\* under that position if no transcript is stored there, and is refused
\* as a repeat if one is; a sender with no such address is unknown.
C23_IdentityByAddress ==
    dkg.state.tag \in {"Sharing", "Dealt"} =>
        \A sender \in Senders(dkg), pvss \in PvssTranscripts :
            LET verified == verify_message(dkg, sender, MessageDeal(pvss))
                applied == apply_message(dkg, sender, MessageDeal(pvss))
            IN /\ ( /\ KnownAddress(dkg, sender)
                    /\ ~HasDealt(dkg, sender)
                    /\ verify_optimistic(pvss) ) =>
                       /\ Accepted(verified)
                       /\ applied.res.ok
                       /\ applied.dkg.vss[SenderIndex(dkg, sender)] = pvss
               /\ HasDealt(dkg, sender) =>
                       \A r \in verified : r.err = "Repeat dealer"
               /\ ~KnownAddress(dkg, sender) =>
                       /\ \A r \in verified :
                              r.err = "dkg received unknown dealer"
                       /\ applied.res.err = "dkg received unknown dealer"

\* C31: apply_message does not repeat the checks of verify_message. A
\* Deal applied without verification from a validator that has a
\* transcript stored is accepted, replaces that transcript and keeps the
\* others; in state Sharing it counts accumulated_shares up again, so
\* that the state becomes Dealt as soon as the count, not the number of
\* dealers, is security_threshold.
C31_ApplyDoesNotReverify ==
    dkg.state.tag \in {"Sharing", "Dealt"} =>
        \A sender \in Senders(dkg), pvss \in PvssTranscripts :
            HasDealt(dkg, sender) =>
                LET applied == apply_message(dkg, sender, MessageDeal(pvss))
                    index == SenderIndex(dkg, sender)
                IN /\ applied.res.ok
                   /\ DOMAIN applied.dkg.vss = DOMAIN dkg.vss
                   /\ applied.dkg.vss[index] = pvss
                   /\ \A k \in (DOMAIN dkg.vss) \ {index} :
                          applied.dkg.vss[k] = dkg.vss[k]
                   /\ dkg.state.tag = "Sharing" =>
                          applied.dkg.state =
                              IF dkg.state.accumulated_shares + 1
                                     < dkg.params.security_threshold
                              THEN Sharing(dkg.state.accumulated_shares + 1,
                                           dkg.state.block)
                              ELSE Dealt
                   /\ dkg.state.tag = "Dealt" => applied.dkg.state = Dealt

\* the state is Dealt with the transcript of one dealer stored, under a
\* security_threshold of 2 over two validators of distinct addresses
C31_Witness ==
    /\ dkg.state.tag = "Dealt"
    /\ ret.op = "apply_message"
    /\ ret.arg = "Deal"
    /\ ret.res.ok
    /\ dkg.params.security_threshold = 2
    /\ dkg.params.shares_num = 2
    /\ dkg.validators[1].validator.address
           # dkg.validators[2].validator.address
    /\ Cardinality(DOMAIN dkg.vss) = 1

\* C32: a Deal that passes verify_message is stored by apply_message
\* under the position that verify_message looked at for a stored
\* transcript, so that the same sender's next Deal is refused by
\* verify_message, also when two entries of the list share an address.
C32_VerifiedIndexIsStoredIndex ==
    \A sender \in Senders(dkg), pvss \in PvssTranscripts :
        Accepted(verify_message(dkg, sender, MessageDeal(pvss))) =>
            LET applied == apply_message(dkg, sender, MessageDeal(pvss))
            IN /\ applied.res.ok
               /\ verify_position(dkg, sender) \in DOMAIN applied.dkg.vss
               /\ applied.dkg.vss[verify_position(dkg, sender)] = pvss
               /\ \A next \in PvssTranscripts :
                      Rejected(verify_message(applied.dkg, sender,
                                              MessageDeal(next)))

\* C33: an Aggregate is bound to the transcripts stored when it is
\* verified. If, after aggregate() returned the message in state Dealt,
\* the valid Deal of one more validator, with coeffs[0] not the identity,
\* is applied, then verify_message refuses that Aggregate, whoever sends
\* it.
C33_AggregateBoundToTranscripts ==
    dkg.state.tag = "Dealt" =>
        \A dealer \in Senders(dkg), pvss \in PvssTranscripts :
            ( /\ KnownAddress(dkg, dealer)
              /\ ~HasDealt(dkg, dealer)
              /\ verify_optimistic(pvss)
              /\ pvss.coeffs0 # G1Zero ) =>
                LET produced == aggregate(dkg)
                    applied == apply_message(dkg, dealer, MessageDeal(pvss))
                IN /\ produced.ok
                   /\ applied.res.ok
                   /\ \A sender \in Senders(dkg) :
                          Rejected(verify_message(applied.dkg, sender,
                                                  produced.val))

\* after a Deal with coeffs[0] not the identity was stored in state Dealt,
\* an Aggregate was refused for its final key
C33_Witness ==
    /\ dkg.state.tag = "Dealt"
    /\ dkg.params.security_threshold = 1
    /\ Cardinality(DOMAIN dkg.vss) = 2
    /\ \E k \in DOMAIN dkg.vss :
           /\ dkg.vss[k].coeffs0 # G1Zero
           /\ verify_optimistic(dkg.vss[k])
    /\ ret.op = "verify_message"
    /\ ret.arg = "Aggregate"
    /\ ret.res.err = "The final key was not correctly derived from the aggregated transcripts"

\* C34: two DKGs constructed with the same validators and parameters for
\* different `me`, which process the same messages in the same order with
\* verify_message and, on success, apply_message, accept the same
\* messages and have, after every message, the same state, the same
\* stored transcripts and the same final key.
C34_ReplicaAgreement ==
    /\ dkg.state = peer.state
    /\ dkg.vss = peer.vss
    /\ final_key(dkg) = final_key(peer)
    /\ \A sender \in Senders(dkg), payload \in Messages :
           \A mine \in verify_message(dkg, sender, payload),
              theirs \in verify_message(peer, sender, payload) :
               /\ mine.ok = theirs.ok
               /\ verified_apply(dkg, sender, payload, mine).res.ok
                      = verified_apply(peer, sender, payload, theirs).res.ok

\* two replicas of different `me` are in state Success over three
\* transcripts, with a final key that is not the identity
C34_Witness ==
    /\ dkg.me # peer.me
    /\ dkg.state.tag = "Success"
    /\ peer.state.tag = "Success"
    /\ dkg.state.final_key # G1Zero
    /\ Cardinality(DOMAIN peer.vss) = 3
    /\ ret.op = "deliver"
    /\ ret.arg = "Aggregate"
    /\ ret.res.ok

\* C35: for 1 <= security_threshold <= shares_num, if the valid Deal of
\* every validator is eventually delivered and applied and, whenever the
\* state is Dealt, the message of aggregate() is eventually published,
\* verified and applied on success, then the state is eventually Success.
C35_EventuallySuccess ==
    ( /\ 1 <= dkg.params.security_threshold
      /\ dkg.params.security_threshold <= dkg.params.shares_num )
        ~> (dkg.state.tag = "Success")

\* C36: once the state is Success, every further call of share,
\* aggregate, verify_message, apply_message or deal leaves the state
\* Success with the same final_key, and final_key() over the stored
\* transcripts is still that key.
C36_SuccessFinal ==
    [][dkg.state.tag = "Success" =>
           /\ dkg'.state = dkg.state
           /\ final_key(dkg') = dkg'.state.final_key]_vars

\* C37: the stored transcripts are keyed by validator position: every key
\* is a position of the validator list, so that a validator has at most
\* one transcript; and while the state is Sharing, for the caller that
\* applies verified messages only and does not use deal,
\* accumulated_shares is the number of stored transcripts and is below
\* security_threshold.
C37_TranscriptsByPosition ==
    /\ \A k \in DOMAIN dkg.vss : k \in 0..(Len(dkg.validators) - 1)
    /\ \A i \in 1..Len(dkg.validators) :
           Cardinality({k \in DOMAIN dkg.vss :
                           k = dkg.validators[i].share_index}) <= 1
    /\ dkg.state.tag = "Sharing" =>
           /\ dkg.state.accumulated_shares = Cardinality(DOMAIN dkg.vss)
           /\ dkg.state.accumulated_shares < dkg.params.security_threshold

\* C38: for every DKG that new accepts, the u32 subtraction
\* shares_num - security_threshold that verify_message performs on an
\* Aggregate in state Dealt does not underflow: it has the one outcome
\* shares_num - security_threshold, which is not negative, and no call
\* panics.
C38_SubtractionInRange ==
    dkg.state.tag = "Dealt" =>
        /\ SubU32(dkg.params.shares_num, dkg.params.security_threshold)
               = {Ok(dkg.params.shares_num - dkg.params.security_threshold)}
        /\ dkg.params.shares_num - dkg.params.security_threshold >= 0
        /\ \A sender \in Senders(dkg), payload \in AggregateMessages :
               \A r \in verify_message(dkg, sender, payload) :
                   ErrorVariant(r) # "panic"

(***************************************************************************)
(* Properties of the construction.                                         *)
(***************************************************************************)

\* C15: new returns an error, and there is no DKG, whenever shares_num is
\* not a power of two.
C15_SharesNumPowerOfTwo ==
    ( /\ ret.op = "new"
      /\ ~PowerOfTwo(ret.arg.params.shares_num) ) =>
        /\ ~ret.res.ok
        /\ dkg = NotConstructed

\* new refused three shares for three validators, the caller among them
C15_Witness ==
    /\ ret.op = "new"
    /\ ret.arg.params.shares_num = 3
    /\ Len(ret.arg.validators) = 3
    /\ \E i \in 1..3 : ret.arg.validators[i] = ret.arg.me
    /\ ret.res.err = "number of shares must be a power of 2"
    /\ dkg = NotConstructed

\* C16: new returns an error, and there is no DKG, whenever no entry of
\* the validator list has both the address and the public key of `me`.
C16_MeInValidators ==
    ( /\ ret.op = "new"
      /\ \A i \in 1..Len(ret.arg.validators) :
             \/ ret.arg.validators[i].address # ret.arg.me.address
             \/ ret.arg.validators[i].public_key # ret.arg.me.public_key ) =>
        /\ ~ret.res.ok
        /\ dkg = NotConstructed

\* new refused a `me` that has the address of the first validator of the
\* list under another public key
C16_Witness ==
    /\ ret.op = "new"
    /\ Len(ret.arg.validators) >= 1
    /\ ret.arg.me.address = ret.arg.validators[1].address
    /\ ret.arg.me.public_key # ret.arg.validators[1].public_key
    /\ ret.res.err = "could not find this validator in the provided validator set"
    /\ dkg = NotConstructed

\* C17: new returns an error whenever security_threshold is 0 or is more
\* than shares_num.
C17_ThresholdInRange ==
    ( /\ ret.op = "new"
      /\ \/ ret.arg.params.security_threshold = 0
         \/ ret.arg.params.security_threshold > ret.arg.params.shares_num ) =>
        ~ret.res.ok

\* C18: every DKG that new returns is in state Sharing with
\* accumulated_shares = 0 and block = 0, stores no transcript, keeps the
\* parameters and the validators in their order, and has `me` set to the
\* position in the list of the validator that constructs it.
C18_FreshDkg ==
    (ret.op = "new" /\ ret.res.ok) =>
        /\ dkg = ret.res.val
        /\ dkg.state = Sharing(0, 0)
        /\ DOMAIN dkg.vss = {}
        /\ dkg.params = ret.arg.params
        /\ Len(dkg.validators) = Len(ret.arg.validators)
        /\ \A i \in 1..Len(dkg.validators) :
               /\ dkg.validators[i].validator = ret.arg.validators[i]
               /\ dkg.validators[i].share_index = i - 1
        /\ dkg.me \in 0..(Len(ret.arg.validators) - 1)
        /\ ret.arg.validators[dkg.me + 1] = ret.arg.me

\* new returned the DKG of the third validator of four
C18_Witness ==
    /\ ret.op = "new"
    /\ ret.res.ok
    /\ Len(ret.arg.validators) = 4
    /\ dkg.me = 2
    /\ dkg.state.tag = "Sharing"

\* C39: every DKG that new returns has exactly shares_num validators, one
\* for each of the positions 0..shares_num-1.
C39_ValidatorsMatchShares ==
    (ret.op = "new" /\ ret.res.ok) =>
        /\ Len(dkg.validators) = dkg.params.shares_num
        /\ {dkg.validators[i].share_index : i \in 1..Len(dkg.validators)}
               = 0..(dkg.params.shares_num - 1)

(***************************************************************************)
(* Properties of the threshold key.                                        *)
(***************************************************************************)
\* a message was encrypted to a key of the simple variant
EncryptedSimple == tpke.stage = "encrypted" /\ tpke.key.variant = "simple"

\* the sets of at least threshold validators of the key
Quorums ==
    {positions \in SUBSET (1..Len(tpke.key.contexts)) :
        Cardinality(positions) >= tpke.key.threshold}

\* the shared secret that the validators of a set combine for the
\* ciphertext
QuorumSecret(positions) ==
    make_shared_secret_from_contexts(
        Quorum(tpke.key.contexts, positions), tpke.ciphertext, tpke.aad,
        GInv(tpke.key))

\* a decryption returned the message
Returned(res, message) == res.ok /\ res.val = message

\* C24: for a key set up with threshold t, the shared secret that any set
\* of at least t validators combines from its decryption shares with the
\* Lagrange coefficients at 0 is the secret that the undivided private key
\* gives, the same for every such set, and it decrypts the ciphertext that
\* encrypt returned for the public key back to the message.
C24_AnyQuorumDecrypts ==
    (EncryptedSimple /\ tpke.changes = {}) =>
        /\ Returned(checked_decrypt(tpke.ciphertext, tpke.aad,
                                    GInv(tpke.key), tpke.key.privkey),
                    tpke.message)
        /\ \A positions \in Quorums :
               /\ QuorumSecret(positions) =
                      Ok(pairing(tpke.ciphertext.commitment,
                                 tpke.key.privkey))
               /\ Returned(checked_decrypt_with_shared_secret(
                               tpke.ciphertext, tpke.aad, GInv(tpke.key),
                               QuorumSecret(positions).val),
                           tpke.message)

\* validators of a key with threshold 3 over 4 shares decrypted the
\* message, and one set of 2 validators combines another secret
C24_Witness ==
    /\ EncryptedSimple
    /\ tpke.changes = {}
    /\ tpke.key.threshold = 3
    /\ Len(tpke.key.contexts) = 4
    /\ ret.op = "decrypt"
    /\ Returned(ret.res, tpke.message)
    /\ \E positions \in SUBSET (1..4) :
           /\ Cardinality(positions) = 2
           /\ QuorumSecret(positions) #
                  Ok(pairing(tpke.ciphertext.commitment, tpke.key.privkey))

\* the share that a validator of the key creates for the ciphertext and
\* the aad it is given, in the variant of the key
CreatedShare(context) ==
    IF tpke.key.variant = "simple"
    THEN create_share_simple(context, tpke.ciphertext, tpke.aad)
    ELSE create_share_fast(context, tpke.ciphertext, tpke.aad,
                           GInv(tpke.key))

\* the result is the error of the failed validity check
CiphertextVerificationFailed(res) ==
    ~res.ok /\ res.err = "ciphertext verification failed"

C29_ShareVerification ==
    /\ (ret.op = "verify" /\ ret.res.ok) =>
           (ret.res.val <=> ret.arg = "none")
    /\ (EncryptedSimple /\ tpke.changes = {}) =>
           verify_decryption_shares_simple(
               tpke.key.contexts[1].public_decryption_contexts,
               tpke.ciphertext,
               [i \in 1..Len(tpke.key.contexts) |->
                   create_share_simple(tpke.key.contexts[i],
                                       tpke.ciphertext, tpke.aad).val])

\* the verifier rejected a share with an altered decryption_share
C29_Witness ==
    /\ EncryptedSimple
    /\ ret.op = "verify"
    /\ ret.arg = "decryption_share"
    /\ ret.res.ok
    /\ ~ret.res.val

\* the decryption shares of the validators at the positions of a set,
\* each created from the private key share given for its position
SharesFrom(private_key_shares, positions) ==
    LET contexts == SelectAt(tpke.key.contexts, positions, 1)
        shares == SelectAt(private_key_shares, positions, 1)
    IN [i \in 1..Len(contexts) |->
           DecryptionShareSimpleCreate(
               contexts[i].index, contexts[i].validator_private_key,
               shares[i], tpke.ciphertext, tpke.aad, GInv(tpke.key)).val]

\* the shared secret that the validators of a set combine from the
\* private key shares given for their positions
SecretFrom(private_key_shares, positions) ==
    make_shared_secret(
        SelectAt(tpke.key.contexts[1].public_decryption_contexts,
                 positions, 1),
        SharesFrom(private_key_shares, positions))

\* C27: after every validator added h.p(w^i) to its private key share,
\* for the one polynomial p of threshold coefficients with p(0) = 0 that
\* the dealer drew, the shared secret that all the validators, and every
\* set of at least threshold of them, combine from the refreshed shares
\* for the ciphertext made before the refresh is the shared secret
\* combined from the old shares.
C27_RefreshKeepsSecret ==
    tpke.stage = "refreshed" =>
        LET old_shared_secret ==
                make_shared_secret_from_contexts(
                    tpke.key.contexts, tpke.ciphertext, tpke.aad,
                    GInv(tpke.key))
        IN /\ old_shared_secret.ok
           /\ \A positions \in Quorums :
                  SecretFrom(tpke.private_key_shares, positions) =
                      old_shared_secret.val
           /\ Returned(checked_decrypt_with_shared_secret(
                           tpke.ciphertext, tpke.aad, GInv(tpke.key),
                           SecretFrom(tpke.private_key_shares,
                                      1..Len(tpke.key.contexts))),
                       tpke.message)

\* the four validators of a key with threshold 3 refreshed their shares
\* with a polynomial of degree 2, and no share is what it was
C27_Witness ==
    /\ tpke.stage = "refreshed"
    /\ ret.op = "refresh"
    /\ tpke.key.threshold = 3
    /\ Len(tpke.key.contexts) = 4
    /\ tpke.polynomial[3] # 0
    /\ \A i \in 2..4 :
           tpke.private_key_shares[i] #
               tpke.key.contexts[i].private_key_share

\* the validator that was removed before the recovery, the last one
removed_participant == tpke.key.contexts[Len(tpke.key.contexts)]

\* at least threshold validators remain after the removal
EnoughRemain == Len(tpke.key.contexts) - 1 >= tpke.key.threshold

\* a share was recovered at the domain point of the removed validator
RecoveredAtSelectedPoint ==
    /\ tpke.stage = "recovered"
    /\ tpke.x_r =
           removed_participant.public_decryption_contexts[
               Len(tpke.key.contexts)].domain

\* C25, as stated: when the validator at the domain point x_r is removed,
\* every remaining validator prepares updates with a polynomial that
\* vanishes at x_r, every remaining validator adds the updates addressed
\* to it, and the updated shares are interpolated at x_r, the result is
\* the original private key share of the removed validator.
C25_RecoveredShareOriginal ==
    RecoveredAtSelectedPoint =>
        tpke.new_private_key_share = removed_participant.private_key_share

\* C25, amended: the same, provided that at least threshold validators
\* remain after the removal.
C25_RecoveredShareOriginalOfQuorum ==
    (RecoveredAtSelectedPoint /\ EnoughRemain) =>
        tpke.new_private_key_share = removed_participant.private_key_share

\* the three remaining validators of a key with threshold 3 recovered the
\* share of the fourth, and the updates changed the share of each
C25_Witness ==
    /\ RecoveredAtSelectedPoint
    /\ ret.op = "recover"
    /\ tpke.key.threshold = 3
    /\ Len(tpke.key.contexts) = 4
    /\ \A j \in 1..3 :
           tpke.new_share_fragments[j] #
               tpke.key.contexts[j].private_key_share
    /\ tpke.new_private_key_share = removed_participant.private_key_share

\* the decryption shares after a recovery: the shares of the remaining
\* validators from their original private key shares, then the share
\* created from the recovered private key share with a new decryption key
SharesWithRecovered(new_validator_decryption_key) ==
    SharesFrom([i \in 1..Len(tpke.key.contexts) |->
                   tpke.key.contexts[i].private_key_share],
               1..(Len(tpke.key.contexts) - 1))
        \o <<DecryptionShareSimpleCreate(
                 removed_participant.index, new_validator_decryption_key,
                 tpke.new_private_key_share, tpke.ciphertext, tpke.aad,
                 GInv(tpke.key)).val>>

\* the shared secret of the original full set of shares is the one that
\* the shares after the recovery combine to: over the public contexts of
\* the remaining validators, and over the domain points of a set of
\* remaining validators and the point x_r of the recovered share
SecretKeptByRecovery ==
    LET participants == remaining_participants(tpke.key.contexts)
        old_shared_secret ==
            make_shared_secret_from_contexts(
                tpke.key.contexts, tpke.ciphertext, tpke.aad,
                GInv(tpke.key))
    IN \A new_validator_decryption_key \in RandElements :
           LET decryption_shares ==
                   SharesWithRecovered(new_validator_decryption_key)
           IN /\ old_shared_secret.ok
              /\ make_shared_secret(
                     participants[1].public_decryption_contexts,
                     decryption_shares) = old_shared_secret.val
              /\ \A positions \in SUBSET (1..Len(participants)) :
                     ( /\ Cardinality(positions) + 1 >= tpke.key.threshold
                       /\ \A j \in positions :
                              domain_points(participants)[j] # tpke.x_r ) =>
                         share_combine_simple(
                             SelectAt(decryption_shares,
                                      positions
                                          \cup {Len(decryption_shares)},
                                      1),
                             prepare_combine_simple(
                                 SelectAt(domain_points(participants),
                                          positions, 1)
                                     \o <<tpke.x_r>>))
                             = old_shared_secret.val

\* C26, as stated: the share recovered at any point x_r of the field from
\* the updated shares of the remaining validators, used together with the
\* original shares of the remaining validators, combines to the shared
\* secret that the original full set of shares combined to for the
\* ciphertext.
C26_RecoveryKeepsSecret ==
    tpke.stage = "recovered" => SecretKeptByRecovery

\* C26, amended: the same, provided that at least threshold validators
\* remain after the removal.
C26_RecoveryKeepsSecretOfQuorum ==
    (tpke.stage = "recovered" /\ EnoughRemain) => SecretKeptByRecovery

\* the three remaining validators of a key with threshold 3 recovered a
\* share at a point that is the domain point of no validator
C26_Witness ==
    /\ tpke.stage = "recovered"
    /\ ret.op = "recover"
    /\ tpke.key.threshold = 3
    /\ Len(tpke.key.contexts) = 4
    /\ \A j \in 1..4 :
           tpke.key.contexts[1].public_decryption_contexts[j].domain
               # tpke.x_r
    /\ \A j \in 1..4 :
           tpke.new_private_key_share #
               tpke.key.contexts[j].private_key_share

\* C40: for 1 <= threshold <= shares_num, the set-up that returned, fast
\* or simple, gave exactly shares_num private contexts; context i has
\* index i, and every private context carries the same list of exactly
\* shares_num public contexts, the i-th of which holds the domain point
\* w^i, w the generator of the evaluation domain.
C40_ContextPerShare ==
    ( /\ tpke.stage # "none"
      /\ 1 <= tpke.key.threshold
      /\ tpke.key.threshold <= tpke.key.shares_num ) =>
        LET contexts == tpke.key.contexts
            shares_num == tpke.key.shares_num
            group_gen == Radix2EvaluationDomain(shares_num).val.group_gen
        IN /\ Len(contexts) = shares_num
           /\ \A i \in 1..Len(contexts) :
                  /\ contexts[i].index = i - 1
                  /\ contexts[i].public_decryption_contexts
                         = contexts[1].public_decryption_contexts
                  /\ Len(contexts[i].public_decryption_contexts)
                         = shares_num
                  /\ \A j \in 1..Len(contexts[i].public_decryption_contexts) :
                         contexts[i].public_decryption_contexts[j].domain
                             = FrPow(group_gen, j - 1)

====
